---------------------------- MODULE Spec2Model ----------------------------
(***************************************************************************)
(* A model of the work-log processing pipeline of the OpenProject Chrome   *)
(* extension: WorkLogService (src/shared/workLogService.js) and            *)
(* OpenProjectTimeLogger / WorkLogParser (src/unnamed/part_000).           *)
(*                                                                         *)
(* Conventions.                                                            *)
(*  - A JavaScript string that the code takes apart (a time of day, a      *)
(*    work-package subject) is a sequence of one-character strings.        *)
(*    null, undefined and '' of such a value are all the empty sequence:   *)
(*    the code only ever tests them with !x / x && ... / x || ... .        *)
(*  - An ISO timestamp is <<"T">> followed by the HH:MM that               *)
(*    new Date(iso).toTimeString().slice(0, 5) yields for it.              *)
(*  - Hours (duration_hours, break_hours) are integers in hundredths of an *)
(*    hour: 250 is 2.5 h, 33 is 0.33 h.                                    *)
(*  - A canonical date YYYY-MM-DD is the integer YYYYMMDD, whose numeric   *)
(*    order is the string order of the zero-padded text.                   *)
(*  - An entry object is identified by its index in workLogEntries (the    *)
(*    code compares entries by reference and by indexOf).                  *)
(*  - A work_package_id of 0 is null / undefined.                          *)
(***************************************************************************)
EXTENDS Integers, Sequences, FiniteSets, TLC

VARIABLES
    workLogEntries,    \* WorkLogService.workLogEntries (the entries the parser returned)
    lastCall,          \* the most recent call of the time-chain interface and what it returned
    validationIssues,  \* the validationIssues array the most recent calculation returned
    analysisData,      \* WorkLogService.analysisData
    workPackages,      \* the remote: work packages, in the order the server lists them
    timeEntries,       \* the remote: time entries, in the order the server lists them
    pc,                \* where the running processing call is suspended ("idle": none runs)
    idx,               \* the loop index i of the running call, 1-based
    cur,               \* the locals of the entry being processed
    results,           \* the results / details array of the running call
    stats,             \* the counters of the running call
    returned,          \* what the completed calls returned, oldest first
    faults,            \* the remote failures so far, by kind of request
    runDate,           \* the date argument of OpenProjectTimeLogger.processWorkLogEntries
    initialized,       \* how far initialize() got: "never" called, "failed", or "ok"
    activeRequests     \* OpenProjectTimeLogger.activeRequests

timeVars == <<lastCall, validationIssues>>

remoteVars == <<workPackages, timeEntries>>

clientVars == <<initialized, activeRequests>>

runVars == <<pc, idx, cur, results, stats, returned, faults, runDate, clientVars>>

vars == <<workLogEntries, lastCall, validationIssues, analysisData, workPackages, timeEntries,
          pc, idx, cur, results, stats, returned, faults, runDate, initialized, activeRequests>>

-----------------------------------------------------------------------------
(* Bounds of the model.                                                    *)

\* Longest work log whose times are chained (number of entries in workLogEntries).
MaxEntries == 3

\* Longest work log that is processed against the remote.
MaxProcEntries == 2

\* Most work packages the remote holds before the first run.
MaxInitWP == 2

\* Most remote requests that fail in one behaviour.
MaxFaults == 2

\* Most runs of the processing loop in one behaviour.
MaxRuns == 2

\* Most work packages of the remote a lookup is made against.
MaxRemoteWP == 5

\* The page size of the work-package listing, 100 in the code (part_000 line 117),
\* scaled down so that a project's work packages span several pages.
pageSize == 2

-----------------------------------------------------------------------------
(* JavaScript string primitives used by the code.                          *)

NoTime == <<>>

\* parseInt's NaN: a value no digit string parses to.
NaN == 0 - 1

Digits == <<"0", "1", "2", "3", "4", "5", "6", "7", "8", "9">>

IsDigit(c) == c \in {"0", "1", "2", "3", "4", "5", "6", "7", "8", "9"}

DigitVal(c) ==
    CASE c = "0" -> 0 [] c = "1" -> 1 [] c = "2" -> 2 [] c = "3" -> 3 [] c = "4" -> 4
      [] c = "5" -> 5 [] c = "6" -> 6 [] c = "7" -> 7 [] c = "8" -> 8 [] c = "9" -> 9

RECURSIVE parseIntFrom(_, _, _)
parseIntFrom(s, k, acc) ==
    IF k > Len(s) \/ ~IsDigit(s[k])
    THEN acc
    ELSE parseIntFrom(s, k + 1, (IF acc = NaN THEN 0 ELSE acc) * 10 + DigitVal(s[k]))

\* parseInt(s): the leading decimal digits of s, NaN when there are none.
parseInt(s) == parseIntFrom(s, 1, NaN)

\* x || 0 for a number x (NaN and 0 are falsy).
OrZero(n) == IF n = NaN THEN 0 ELSE n

\* s.includes(c) for a one-character c.
Includes(s, c) == \E k \in 1..Len(s) : s[k] = c

\* s.indexOf(':', k), 0 when there is none.
RECURSIVE indexOfColon(_, _)
indexOfColon(s, k) ==
    IF k > Len(s) THEN 0 ELSE IF s[k] = ":" THEN k ELSE indexOfColon(s, k + 1)

\* s.split(':'): the pieces of s between colons.
RECURSIVE SplitColon(_)
SplitColon(s) ==
    LET p == indexOfColon(s, 1)
    IN  IF p = 0 THEN <<s>>
        ELSE <<SubSeq(s, 1, p - 1)>> \o SplitColon(SubSeq(s, p + 1, Len(s)))

\* String(n) for an integer n >= 0 or NaN.
RECURSIVE String(_)
String(n) == IF n = NaN THEN <<"N", "a", "N">> ELSE IF n < 10 THEN <<Digits[n + 1]>> ELSE String(n \div 10) \o <<Digits[(n % 10) + 1]>>

\* s.padStart(2, '0')
padStart2(s) == IF Len(s) >= 2 THEN s ELSE IF Len(s) = 1 THEN <<"0">> \o s ELSE <<"0", "0">>

\* /^\d{1,2}:\d{2}$/
MatchesHHMM(s) ==
    LET parts == SplitColon(s)
    IN  /\ Len(parts) = 2
        /\ Len(parts[1]) \in {1, 2}
        /\ Len(parts[2]) = 2
        /\ \A k \in 1..Len(parts[1]) : IsDigit(parts[1][k])
        /\ \A k \in 1..2 : IsDigit(parts[2][k])

\* Math.round(hours * 60), hours in hundredths of an hour: floor(x + 0.5).
MathRoundMinutes(hours) == (60 * hours + 50) \div 100

-----------------------------------------------------------------------------
(* WorkLogService: time handling.                                          *)

\* extractTimeFromString(timeString)
extractTimeFromString(timeString) ==
    IF timeString = NoTime THEN NoTime
    ELSE IF Includes(timeString, "T") THEN Tail(timeString)
    ELSE IF MatchesHHMM(timeString) THEN timeString
    ELSE NoTime

\* The %24 of addHoursToTime left out.
addHoursToTime_NoWrap(timeString, hours) ==
    IF timeString = NoTime \/ hours = 0 THEN timeString
    ELSE LET clean == IF Includes(timeString, "T") THEN Tail(timeString) ELSE timeString
             parts == SplitColon(clean)
             total == OrZero(parseInt(parts[1])) * 60
                        + OrZero(IF Len(parts) >= 2 THEN parseInt(parts[2]) ELSE NaN)
                        + MathRoundMinutes(hours)
         IN  padStart2(String(total \div 60)) \o <<":">> \o padStart2(String(total % 60))

\* addHoursToTime(timeString, hours)
addHoursToTime(timeString, hours) ==
    IF timeString = NoTime \/ hours = 0 THEN timeString
    ELSE LET cleanTimeString == IF Includes(timeString, "T") THEN Tail(timeString) ELSE timeString
             parts == SplitColon(cleanTimeString)
             startHour == OrZero(parseInt(parts[1]))
             startMinute == OrZero(IF Len(parts) >= 2 THEN parseInt(parts[2]) ELSE NaN)
             additionalMinutes == MathRoundMinutes(hours)
             totalMinutes == startHour * 60 + startMinute + additionalMinutes
             newHours == totalMinutes \div 60
             newMinutes == totalMinutes % 60
             finalHours == newHours % 24
         IN  padStart2(String(finalHours)) \o <<":">> \o padStart2(String(newMinutes))

\* new Date(`1970-01-01T${hhmm}:00`).getTime(), in minutes; NaN for an invalid date.
dateMinutes(hhmm) ==
    LET parts == SplitColon(hhmm)
    IN  IF Len(parts) = 2 /\ Len(parts[1]) = 2 /\ Len(parts[2]) = 2
        THEN LET h == parseInt(parts[1])
                 m == parseInt(parts[2])
             IN  IF h \in 0..23 /\ m \in 0..59 THEN h * 60 + m ELSE NaN
        ELSE NaN

\* compareEntryTimes(timeA, timeB): the sign matters only; NaN - x is NaN, which sort takes as 0.
compareEntryTimes(timeA, timeB) ==
    LET extractedA == extractTimeFromString(timeA)
        extractedB == extractTimeFromString(timeB)
        cleanTimeA == IF extractedA = NoTime THEN <<"0", "0", ":", "0", "0">> ELSE extractedA
        cleanTimeB == IF extractedB = NoTime THEN <<"0", "0", ":", "0", "0">> ELSE extractedB
        a == dateMinutes(cleanTimeA)
        b == dateMinutes(cleanTimeB)
    IN  IF a = NaN \/ b = NaN THEN 0 ELSE a - b

\* The comparator of sortEntriesForDate, on the entries E[a] and E[b].
sortCompare(E, a, b) ==
    IF E[a].is_scrum /\ ~E[b].is_scrum THEN -1
    ELSE IF ~E[a].is_scrum /\ E[b].is_scrum THEN 1
    ELSE IF E[a].calculated_start_time # NoTime /\ E[b].calculated_start_time # NoTime
         THEN compareEntryTimes(E[a].calculated_start_time, E[b].calculated_start_time)
    ELSE IF E[a].calculated_start_time # NoTime /\ E[b].calculated_start_time = NoTime THEN -1
    ELSE IF E[a].calculated_start_time = NoTime /\ E[b].calculated_start_time # NoTime THEN 1
    ELSE a - b

\* Array.prototype.sort is stable: x goes before the first element it is strictly less than.
RECURSIVE insertSorted(_, _, _)
insertSorted(E, s, x) ==
    IF s = <<>> THEN <<x>>
    ELSE IF sortCompare(E, x, Head(s)) < 0 THEN <<x>> \o s
    ELSE <<Head(s)>> \o insertSorted(E, Tail(s), x)

RECURSIVE sortFrom(_, _, _)
sortFrom(E, entries, acc) ==
    IF entries = <<>> THEN acc
    ELSE sortFrom(E, Tail(entries), insertSorted(E, acc, Head(entries)))

\* sortEntriesForDate(entries): entries is a sequence of indices into E.
sortEntriesForDate(E, entries) == sortFrom(E, entries, <<>>)

\* groupEntriesByDate(): the dates in order of first appearance (Object.entries order) ...
RECURSIVE datesInOrder(_, _, _)
datesInOrder(E, k, acc) ==
    IF k > Len(E) THEN acc
    ELSE datesInOrder(E, k + 1,
            IF \E j \in 1..Len(acc) : acc[j] = E[k].entry_date THEN acc
            ELSE Append(acc, E[k].entry_date))

\* ... and the entries of one date, in source order.
RECURSIVE entriesOfDate(_, _, _)
entriesOfDate(E, date, k) ==
    IF k > Len(E) THEN <<>>
    ELSE (IF E[k].entry_date = date THEN <<k>> ELSE <<>>) \o entriesOfDate(E, date, k + 1)

\* findPreviousNonScrumEntry(entries, currentIndex): an index into E, 0 for null.
RECURSIVE findPreviousNonScrumEntry(_, _, _)
findPreviousNonScrumEntry(E, entries, currentIndex) ==
    IF currentIndex <= 1 THEN 0
    ELSE IF ~E[entries[currentIndex - 1]].is_scrum THEN entries[currentIndex - 1]
    ELSE findPreviousNonScrumEntry(E, entries, currentIndex - 1)

\* getFirstNonScrumStartTime falling back to 09:00 without a start time of the user.
getFirstNonScrumStartTime_Default(entry) ==
    IF entry.calculated_start_time # NoTime THEN entry.calculated_start_time
    ELSE IF extractTimeFromString(entry.start_time) # NoTime /\ entry.user_set_start_time
         THEN extractTimeFromString(entry.start_time)
    ELSE <<"0", "9", ":", "0", "0">>

\* getFirstNonScrumStartTime(entry)
getFirstNonScrumStartTime(entry) ==
    IF entry.calculated_start_time # NoTime THEN entry.calculated_start_time
    ELSE IF ~entry.user_set_start_time THEN NoTime
    ELSE IF extractTimeFromString(entry.start_time) # NoTime
         THEN extractTimeFromString(entry.start_time)
    ELSE <<"0", "9", ":", "0", "0">>

\* getSubsequentStartTime(entry, sortedEntries, index)
getSubsequentStartTime(E, sortedEntries, index) ==
    LET breakHours == E[sortedEntries[index]].break_hours
        previousEntry == findPreviousNonScrumEntry(E, sortedEntries, index)
    IN  IF previousEntry = 0 THEN NoTime
        ELSE addHoursToTime(E[previousEntry].calculated_end_time, breakHours)

\* calculateEntryStartTime(entry, sortedEntries, index, isFirstNonScrum)
calculateEntryStartTime(E, sortedEntries, index, isFirstNonScrum) ==
    IF isFirstNonScrum THEN getFirstNonScrumStartTime(E[sortedEntries[index]])
    ELSE getSubsequentStartTime(E, sortedEntries, index)

\* checkTimeOverlap(...): the issues array after the call.
checkTimeOverlap(E, sortedEntries, index, currentTime, issues) ==
    LET prevEntry == findPreviousNonScrumEntry(E, sortedEntries, index)
    IN  IF prevEntry = 0 \/ E[prevEntry].calculated_end_time = NoTime THEN issues
        ELSE IF LET prevEndTime == dateMinutes(E[prevEntry].calculated_end_time)
                    currentStartTime == dateMinutes(currentTime)
                IN  prevEndTime # NaN /\ currentStartTime # NaN /\ currentStartTime < prevEndTime
             THEN Append(issues, [type |-> "time_overlap", entry |-> sortedEntries[index]])
        ELSE issues

\* setEntryTimes(entry, currentTime, sortedEntries, index, validationIssues)
setEntryTimes(E, sortedEntries, index, currentTime, issues) ==
    LET e == sortedEntries[index]
        E1 == [E EXCEPT ![e].calculated_start_time = currentTime,
                        ![e].calculated_end_time = addHoursToTime(currentTime, E[e].hours)]
    IN  [entries |-> E1,
         issues |-> checkTimeOverlap(E1, sortedEntries, index, currentTime, issues)]

\* processScrumEntry(entry, validationIssues)
processScrumEntry(E, e, issues) ==
    LET issues1 == IF E[e].work_package_id = 0
                   THEN Append(issues, [type |-> "missing_work_package_id", entry |-> e])
                   ELSE issues
        start == IF E[e].calculated_start_time = NoTime THEN <<"1", "0", ":", "0", "0">>
                 ELSE E[e].calculated_start_time
    IN  [entries |-> [E EXCEPT ![e].calculated_start_time = start,
                               ![e].calculated_end_time = addHoursToTime(start, E[e].hours)],
         issues |-> issues1]

\* processDateEntries with isFirstNonScrum cleared by whichever entry comes first, a
\* recurring meeting included.
RECURSIVE processDateEntriesFrom_AnyFirst(_, _, _, _, _)
processDateEntriesFrom_AnyFirst(E, sortedEntries, index, isFirstNonScrum, issues) ==
    IF index > Len(sortedEntries) THEN [entries |-> E, issues |-> issues]
    ELSE IF E[sortedEntries[index]].is_scrum
         THEN LET r == processScrumEntry(E, sortedEntries[index], issues)
              IN  processDateEntriesFrom_AnyFirst(r.entries, sortedEntries, index + 1, FALSE, r.issues)
    ELSE LET currentTime == calculateEntryStartTime(E, sortedEntries, index, isFirstNonScrum)
             r == setEntryTimes(E, sortedEntries, index, currentTime, issues)
         IN  processDateEntriesFrom_AnyFirst(r.entries, sortedEntries, index + 1, FALSE, r.issues)

\* processDateEntries(sortedEntries, validationIssues), from position index on.
RECURSIVE processDateEntriesFrom(_, _, _, _, _)
processDateEntriesFrom(E, sortedEntries, index, isFirstNonScrum, issues) ==
    IF index > Len(sortedEntries) THEN [entries |-> E, issues |-> issues]
    ELSE IF E[sortedEntries[index]].is_scrum
         THEN LET r == processScrumEntry(E, sortedEntries[index], issues)
              IN  processDateEntriesFrom(r.entries, sortedEntries, index + 1, isFirstNonScrum, r.issues)
    ELSE LET currentTime == calculateEntryStartTime(E, sortedEntries, index, isFirstNonScrum)
             r == setEntryTimes(E, sortedEntries, index, currentTime, issues)
         IN  processDateEntriesFrom(r.entries, sortedEntries, index + 1, FALSE, r.issues)

processDateEntries(E, sortedEntries, issues) ==
    processDateEntriesFrom(E, sortedEntries, 1, TRUE, issues)

RECURSIVE calculateDates(_, _, _)
calculateDates(E, dates, issues) ==
    IF dates = <<>> THEN [entries |-> E, issues |-> issues]
    ELSE LET sortedEntries == sortEntriesForDate(E, entriesOfDate(E, Head(dates), 1))
             r == processDateEntries(E, sortedEntries, issues)
         IN  calculateDates(r.entries, Tail(dates), r.issues)

\* calculateAllTimes(): the entries after the call and the issues it returns.
calculateAllTimes(E) == calculateDates(E, datesInOrder(E, 1, <<>>), <<>>)

\* checkAndPromptForStartTime(): the dates that need a start time.
datesNeedingStartTime(E) ==
    {d \in {E[k].entry_date : k \in 1..Len(E)} :
        \E k \in 1..Len(E) :
            /\ E[k].entry_date = d /\ ~E[k].is_scrum
            /\ \A j \in 1..(k - 1) : E[j].entry_date = d => E[j].is_scrum
            /\ ~E[k].user_set_start_time}

\* A find that does not look at the date.
findFirstNonScrum_AnyDate(E, targetDate) ==
    LET hits == {k \in 1..Len(E) : ~E[k].is_scrum}
    IN  IF hits = {} THEN 0 ELSE CHOOSE k \in hits : \A j \in hits : k <= j

\* The first entry of E that is not a recurring meeting and, when targetDate is not
\* null (0), has that date; 0 when there is none. (Array.prototype.find)
findFirstNonScrum(E, targetDate) ==
    LET hits == {k \in 1..Len(E) : ~E[k].is_scrum /\ (targetDate = 0 \/ E[k].entry_date = targetDate)}
    IN  IF hits = {} THEN 0 ELSE CHOOSE k \in hits : \A j \in hits : k <= j

-----------------------------------------------------------------------------
(* The parser's output: WorkLogParser.processDateEntries / parseJsonTaskEntry. *)

\* The seconds since local midnight as the HH:MM of toTimeString().slice(0, 5).
isoLocalTime(seconds) ==
    <<"T">> \o padStart2(String(((seconds \div 60) % 1440) \div 60)) \o <<":">>
           \o padStart2(String(((seconds \div 60) % 1440) % 60))

\* calculateStartTime(isScrum, startTime, breakMinutes), in seconds since the midnight
\* of the day the parser runs on.
calculateStartTime(isScrum, startTime, breakMinutes) ==
    IF isScrum THEN (startTime \div 86400) * 86400 + 10 * 3600
    ELSE startTime + breakMinutes * 60

\* config.PROJECT_MAPPINGS: project name -> project id.
PROJECT_MAPPINGS == [name \in {"P1", "P2"} |-> IF name = "P1" THEN 1 ELSE 2]

\* parseJsonTaskEntry(entryData, startTime, entryDate): the entry object it returns.
parseJsonTaskEntry(entryData, startTime, entryDate) ==
    LET breakMinutes == IF entryData.break_hours # 0 THEN MathRoundMinutes(entryData.break_hours) ELSE 0
        actualStartTime == calculateStartTime(entryData.is_scrum, startTime, breakMinutes)
    IN  [project |-> entryData.project,
         work_package_id |-> entryData.work_package_id,
         project_id |-> PROJECT_MAPPINGS[entryData.project],
         subject |-> entryData.subject,
         start_time |-> isoLocalTime(actualStartTime),
         end_seconds |-> actualStartTime + entryData.duration_hours * 36,
         hours |-> entryData.duration_hours,
         break_hours |-> entryData.break_hours,
         is_scrum |-> entryData.is_scrum,
         entry_date |-> entryDate,
         calculated_start_time |-> NoTime,
         calculated_end_time |-> NoTime,
         user_set_start_time |-> FALSE,
         existing_work_package_id |-> 0]

\* The entries of a file whose raw entries are raws (each with its log's date), every
\* one of them valid: the parser's chain restarts at 09:00 with each date.
RECURSIVE parseFrom(_, _, _)
parseFrom(raws, k, currentTime) ==
    IF k > Len(raws) THEN <<>>
    ELSE LET startTime == IF k = 1 \/ raws[k - 1].date # raws[k].date THEN 9 * 3600 ELSE currentTime
             entry == parseJsonTaskEntry(raws[k], startTime, raws[k].date)
         IN  <<entry>> \o parseFrom(raws, k + 1, entry.end_seconds)

parsedEntries(raws) == parseFrom(raws, 1, 9 * 3600)

\* The entries of one date are contiguous: extractWorkLogEntries concatenates the
\* per-date lists of the parser's result.
DatesContiguous(raws) ==
    \A a, b, c \in 1..Len(raws) :
        (a < b /\ b < c /\ raws[a].date = raws[c].date) => raws[b].date = raws[a].date

-----------------------------------------------------------------------------
(* The time chain: the inputs of the model and its operations.             *)

Dates == {20251023, 20251024}

HHMM(h, m) == padStart2(String(h)) \o <<":">> \o padStart2(String(m))

\* The start times the user supplies.
StartTimes == {HHMM(11, 0), HHMM(22, 0)}

\* Raw entries for the time chain: 2.5 h without a break or 4.5 h after a break of
\* 0.33 h; a recurring meeting of 0.25 h carries its work package id.
TimeRawEntries ==
    {[project |-> "P1", subject |-> <<"a">>, duration_hours |-> k[1], break_hours |-> k[2],
      is_scrum |-> k[3], work_package_id |-> k[4], date |-> d] :
        k \in {<<250, 0, FALSE, 0>>, <<450, 33, FALSE, 0>>, <<25, 0, TRUE, 7>>}, d \in Dates}

TimeInputs ==
    UNION {{raws \in [1..n -> TimeRawEntries] : DatesContiguous(raws)} : n \in 1..MaxEntries}

\* analysisData = null
NoAnalysis ==
    [done |-> FALSE, scrum |-> <<>>, existing |-> <<>>, new |-> <<>>, duplicates |-> <<>>]

NoCall ==
    [op |-> "none", startTime |-> NoTime, targetDate |-> 0, entry |-> 0, needsStartTime |-> FALSE]

IdleRun ==
    /\ analysisData = NoAnalysis
    /\ workPackages = <<>>
    /\ timeEntries = <<>>
    /\ pc = "idle"
    /\ idx = 0
    /\ cur = [type |-> "none", workPackageId |-> 0]
    /\ results = <<>>
    /\ stats = [createdCount |-> 0, updatedCount |-> 0, errorCount |-> 0]
    /\ returned = <<>>
    /\ faults = [lookup |-> 0, mutation |-> 0, listing |-> 0]
    /\ runDate = [kind |-> "none"]
    /\ initialized = "ok"
    /\ activeRequests = 0

InitTime ==
    /\ \E raws \in TimeInputs : workLogEntries = parsedEntries(raws)
    /\ lastCall = NoCall
    /\ validationIssues = <<>>
    /\ IdleRun

\* setStartTimeForFirstEntry(startTime, targetDate)
SetStartTimeForFirstEntry(startTime, targetDate) ==
    LET firstNonScrumEntry == findFirstNonScrum(workLogEntries, targetDate)
        E1 == [workLogEntries EXCEPT ![firstNonScrumEntry].calculated_start_time = startTime,
                                     ![firstNonScrumEntry].user_set_start_time = TRUE]
        r == calculateAllTimes(E1)
    IN  /\ lastCall' = [op |-> "setStartTimeForFirstEntry", startTime |-> startTime,
                        targetDate |-> targetDate, entry |-> firstNonScrumEntry,
                        needsStartTime |-> FALSE]
        /\ IF firstNonScrumEntry # 0
           THEN /\ workLogEntries' = r.entries
                /\ validationIssues' = r.issues
           ELSE /\ workLogEntries' = workLogEntries
                /\ validationIssues' = <<>>
        /\ UNCHANGED <<analysisData, remoteVars, runVars>>

\* calculateAllTimes() called on its own.
CalculateAllTimes ==
    /\ LET r == calculateAllTimes(workLogEntries)
       IN  /\ workLogEntries' = r.entries
           /\ validationIssues' = r.issues
    /\ lastCall' = [NoCall EXCEPT !.op = "calculateAllTimes"]
    /\ UNCHANGED <<analysisData, remoteVars, runVars>>

\* checkAndPromptForStartTime()
CheckAndPromptForStartTime ==
    LET needing == datesNeedingStartTime(workLogEntries)
        date == CHOOSE d \in needing : \A e \in needing : d <= e
    IN  /\ IF needing = {}
           THEN /\ workLogEntries' = workLogEntries
                /\ lastCall' = [NoCall EXCEPT !.op = "checkAndPromptForStartTime"]
           ELSE /\ workLogEntries' =
                      [k \in 1..Len(workLogEntries) |->
                          IF workLogEntries[k].entry_date = date /\ ~workLogEntries[k].is_scrum
                          THEN [workLogEntries[k] EXCEPT !.calculated_start_time = NoTime,
                                                         !.calculated_end_time = NoTime]
                          ELSE workLogEntries[k]]
                /\ lastCall' = [op |-> "checkAndPromptForStartTime", startTime |-> NoTime,
                                targetDate |-> date, entry |-> findFirstNonScrum(workLogEntries, date),
                                needsStartTime |-> TRUE]
        /\ UNCHANGED <<validationIssues, analysisData, remoteVars, runVars>>

NextTime ==
    \/ \E t \in StartTimes, d \in Dates \cup {0} : SetStartTimeForFirstEntry(t, d)
    \/ CalculateAllTimes
    \/ CheckAndPromptForStartTime

\* The time chain under any sequence of calls of its interface.
SpecTime == InitTime /\ [][NextTime]_vars

-----------------------------------------------------------------------------
(* The time chain: what the claims state, in terms of minutes of the day.  *)

WellFormedTime(ts) ==
    /\ Len(ts) = 5
    /\ ts[3] = ":"
    /\ \A k \in {1, 2, 4, 5} : IsDigit(ts[k])
    /\ DigitVal(ts[1]) * 10 + DigitVal(ts[2]) \in 0..23
    /\ DigitVal(ts[4]) * 10 + DigitVal(ts[5]) \in 0..59

MinutesOfDay(ts) ==
    (DigitVal(ts[1]) * 10 + DigitVal(ts[2])) * 60 + DigitVal(ts[4]) * 10 + DigitVal(ts[5])

\* hours * 60 rounded half up, hours in hundredths of an hour.
RoundHalfUp(hours) ==
    CHOOSE m \in 0..(hours + 1) : 100 * m <= 60 * hours + 50 /\ 60 * hours + 50 < 100 * (m + 1)

\* The chain anchor of a date: its first non-recurring entry in source order (0: none).
Anchor(date) == findFirstNonScrum(workLogEntries, date)

\* The nearest non-recurring entry of k's date before k in source order (0: none).
PrevInChain(k) ==
    LET before == {j \in 1..(k - 1) : /\ workLogEntries[j].entry_date = workLogEntries[k].entry_date
                                      /\ ~workLogEntries[j].is_scrum}
    IN  IF before = {} THEN 0 ELSE CHOOSE j \in before : \A i \in before : i <= j

\* setStartTimeForFirstEntry(t, d) has just returned, having found an anchor for d.
StartTimeJustSet ==
    /\ lastCall.op = "setStartTimeForFirstEntry"
    /\ lastCall.targetDate # 0
    /\ lastCall.entry # 0

\* C7: after setStartTimeForFirstEntry(t, d) returns, every non-recurring entry of d other
\* than the anchor starts where the nearest preceding non-recurring entry of d (in source
\* order) ends, plus its own break rounded to the minute, modulo 24 h.
C7_ChainEquation ==
    StartTimeJustSet =>
        \A k \in 1..Len(workLogEntries) :
            (/\ workLogEntries[k].entry_date = lastCall.targetDate
             /\ ~workLogEntries[k].is_scrum
             /\ k # Anchor(lastCall.targetDate))
            => /\ WellFormedTime(workLogEntries[k].calculated_start_time)
               /\ WellFormedTime(workLogEntries[PrevInChain(k)].calculated_end_time)
               /\ MinutesOfDay(workLogEntries[k].calculated_start_time)
                    = (MinutesOfDay(workLogEntries[PrevInChain(k)].calculated_end_time)
                         + RoundHalfUp(workLogEntries[k].break_hours)) % 1440

\* C8: after setStartTimeForFirstEntry(t, d) returns, the first non-recurring entry of d in
\* source order starts at t: the supplied anchor time is never replaced by a computed one.
C8_AnchorKept ==
    StartTimeJustSet =>
        workLogEntries[Anchor(lastCall.targetDate)].calculated_start_time = lastCall.startTime

\* The start and end times of the non-recurring entries of E, in source order.
RECURSIVE chainTimes(_, _)
chainTimes(E, k) ==
    IF k > Len(E) THEN <<>>
    ELSE (IF E[k].is_scrum THEN <<>>
          ELSE <<<<E[k].calculated_start_time, E[k].calculated_end_time>>>>) \o chainTimes(E, k + 1)

IsNotScrum(e) == ~e.is_scrum

TimesCalculated ==
    \/ lastCall.op = "calculateAllTimes"
    \/ lastCall.op = "setStartTimeForFirstEntry" /\ lastCall.entry # 0

\* C9: after calculateAllTimes every recurring meeting starts at 10:00 wherever it stands,
\* and calculateAllTimes gives the non-recurring entries the times it gives them when the
\* recurring meetings are removed from the work log.
C9_RecurringFixedSlot ==
    /\ TimesCalculated =>
          \A k \in 1..Len(workLogEntries) :
              workLogEntries[k].is_scrum =>
                  workLogEntries[k].calculated_start_time = <<"1", "0", ":", "0", "0">>
    /\ chainTimes(calculateAllTimes(workLogEntries).entries, 1)
         = chainTimes(calculateAllTimes(SelectSeq(workLogEntries, IsNotScrum)).entries, 1)

\* C9's case: a recurring meeting stands between two chained entries of its date.
C9_Witness ==
    /\ TimesCalculated
    /\ \E a, b, c \in 1..Len(workLogEntries) :
          /\ a < b /\ b < c
          /\ workLogEntries[a].entry_date = workLogEntries[b].entry_date
          /\ workLogEntries[b].entry_date = workLogEntries[c].entry_date
          /\ ~workLogEntries[a].is_scrum /\ workLogEntries[b].is_scrum /\ ~workLogEntries[c].is_scrum
          /\ workLogEntries[b].calculated_start_time = <<"1", "0", ":", "0", "0">>
          /\ workLogEntries[a].calculated_start_time = HHMM(11, 0)
          /\ workLogEntries[c].calculated_start_time # NoTime

\* C10: an entry with a start time ends round(duration * 60) minutes later, modulo 24 h,
\* and both are zero-padded HH:MM with the hour in 00..23 and the minute in 00..59.
C10_EndIsStartPlusDuration ==
    \A k \in 1..Len(workLogEntries) :
        workLogEntries[k].calculated_start_time # NoTime =>
            /\ WellFormedTime(workLogEntries[k].calculated_start_time)
            /\ WellFormedTime(workLogEntries[k].calculated_end_time)
            /\ MinutesOfDay(workLogEntries[k].calculated_end_time)
                 = (MinutesOfDay(workLogEntries[k].calculated_start_time)
                      + RoundHalfUp(workLogEntries[k].hours)) % 1440

\* C10's case: anchor 11:00, 2.5 h, then a break of 0.33 h and 4.5 h: 13:30, 13:50, 18:20;
\* and an entry that runs past midnight.
C10_Witness ==
    /\ \E a, b \in 1..Len(workLogEntries) :
          /\ workLogEntries[a].calculated_start_time = HHMM(11, 0)
          /\ workLogEntries[a].hours = 250
          /\ workLogEntries[a].calculated_end_time = HHMM(13, 30)
          /\ workLogEntries[b].break_hours = 33
          /\ workLogEntries[b].hours = 450
          /\ workLogEntries[b].calculated_start_time = HHMM(13, 50)
          /\ workLogEntries[b].calculated_end_time = HHMM(18, 20)
    /\ \E c \in 1..Len(workLogEntries) :
          /\ workLogEntries[c].calculated_start_time = HHMM(22, 0)
          /\ workLogEntries[c].calculated_end_time = HHMM(0, 30)

-----------------------------------------------------------------------------
(* The remote and OpenProjectTimeLogger's requests to it.                  *)

\* subject.trim()
RECURSIVE trimStart(_)
trimStart(s) == IF s # <<>> /\ Head(s) = " " THEN trimStart(Tail(s)) ELSE s

RECURSIVE trimEnd(_)
trimEnd(s) == IF s # <<>> /\ s[Len(s)] = " " THEN trimEnd(SubSeq(s, 1, Len(s) - 1)) ELSE s

trim(s) == trimEnd(trimStart(s))

\* The lower-case letter of each upper-case letter.
LowerCaseOf ==
    ("A" :> "a") @@ ("B" :> "b") @@ ("C" :> "c") @@ ("D" :> "d") @@ ("E" :> "e") @@ ("F" :> "f")
    @@ ("G" :> "g") @@ ("H" :> "h") @@ ("I" :> "i") @@ ("J" :> "j") @@ ("K" :> "k") @@ ("L" :> "l")
    @@ ("M" :> "m") @@ ("N" :> "n") @@ ("O" :> "o") @@ ("P" :> "p") @@ ("Q" :> "q") @@ ("R" :> "r")
    @@ ("S" :> "s") @@ ("T" :> "t") @@ ("U" :> "u") @@ ("V" :> "v") @@ ("W" :> "w") @@ ("X" :> "x")
    @@ ("Y" :> "y") @@ ("Z" :> "z")

\* s.toLowerCase()
toLowerCase(s) ==
    [k \in 1..Len(s) |-> IF s[k] \in DOMAIN LowerCaseOf THEN LowerCaseOf[s[k]] ELSE s[k]]

NoWorkPackage == [id |-> 0, project |-> 0, subject |-> <<>>]

\* GET /api/v3/projects/{projectId}/work_packages: the project's work packages, in order.
RECURSIVE projectWorkPackages(_, _)
projectWorkPackages(wps, projectId) ==
    IF wps = <<>> THEN <<>>
    ELSE (IF Head(wps).project = projectId THEN <<Head(wps)>> ELSE <<>>)
            \o projectWorkPackages(Tail(wps), projectId)

\* fetchWorkPackagesPage(projectId, offset, pageSize): the elements of page `offset`.
fetchWorkPackagesPage(wps, projectId, offset, size) ==
    LET all == projectWorkPackages(wps, projectId)
        first == (offset - 1) * size + 1
        last == IF offset * size < Len(all) THEN offset * size ELSE Len(all)
    IN  IF first > Len(all) THEN <<>> ELSE SubSeq(all, first, last)

\* haystack.includes(needle)
includesString(haystack, needle) ==
    \E i \in 1..(Len(haystack) - Len(needle) + 1) :
        SubSeq(haystack, i, i + Len(needle) - 1) = needle

\* A matcher that also takes the partial matches the code only logs.
findMatchingWorkPackage_Partial(page, normalizedSubject) ==
    LET wpSubject(k) == toLowerCase(trim(page[k].subject))
        hits == {k \in 1..Len(page) :
                    \/ includesString(wpSubject(k), normalizedSubject)
                    \/ includesString(normalizedSubject, wpSubject(k))}
    IN  IF hits = {} THEN NoWorkPackage
        ELSE page[CHOOSE k \in hits : \A h \in hits : k <= h]

\* findMatchingWorkPackage without the lower-casing of the remote subject.
RECURSIVE findMatchingWorkPackage_CaseSensitive(_, _)
findMatchingWorkPackage_CaseSensitive(page, normalizedSubject) ==
    IF page = <<>> THEN NoWorkPackage
    ELSE IF trim(Head(page).subject) = normalizedSubject THEN Head(page)
    ELSE findMatchingWorkPackage_CaseSensitive(Tail(page), normalizedSubject)

\* A matcher that goes through the whole page and keeps the last exact match.
findMatchingWorkPackage_Last(page, normalizedSubject) ==
    LET hits == {k \in 1..Len(page) : toLowerCase(trim(page[k].subject)) = normalizedSubject}
    IN  IF hits = {} THEN NoWorkPackage
        ELSE page[CHOOSE k \in hits : \A h \in hits : k >= h]

\* findMatchingWorkPackage compared on the subjects as written.
RECURSIVE findMatchingWorkPackage_Raw(_, _)
findMatchingWorkPackage_Raw(page, normalizedSubject) ==
    IF page = <<>> THEN NoWorkPackage
    ELSE IF Head(page).subject = normalizedSubject THEN Head(page)
    ELSE findMatchingWorkPackage_Raw(Tail(page), normalizedSubject)

\* findMatchingWorkPackage(workPackages, normalizedSubject)
RECURSIVE findMatchingWorkPackage(_, _)
findMatchingWorkPackage(page, normalizedSubject) ==
    IF page = <<>> THEN NoWorkPackage
    ELSE IF toLowerCase(trim(Head(page).subject)) = normalizedSubject THEN Head(page)
    ELSE findMatchingWorkPackage(Tail(page), normalizedSubject)

\* A lookup that reads the first page only.
shouldFetchNextPage_Never(currentPageCount, size) == FALSE

\* A lookup that goes on after a short page, until a page is empty.
shouldFetchNextPage_Always(currentPageCount, size) == TRUE

\* shouldFetchNextPage(projectId, offset, pageSize, currentPageCount)
shouldFetchNextPage(currentPageCount, size) == ~(currentPageCount < size)

\* The while loop of checkExistingWorkPackageBySubject from page `offset` on; the
\* request for page failAt fails (0: none does), which the catch turns into null.
RECURSIVE checkExistingFrom(_, _, _, _, _)
checkExistingFrom(wps, projectId, normalizedSubject, offset, failAt) ==
    IF offset = failAt
    THEN [workPackage |-> NoWorkPackage, fetches |-> offset, failed |-> TRUE]
    ELSE LET page == fetchWorkPackagesPage(wps, projectId, offset, pageSize)
             match == findMatchingWorkPackage(page, normalizedSubject)
         IN  IF page = <<>>
             THEN [workPackage |-> NoWorkPackage, fetches |-> offset, failed |-> FALSE]
             ELSE IF match # NoWorkPackage
             THEN [workPackage |-> match, fetches |-> offset, failed |-> FALSE]
             ELSE IF ~shouldFetchNextPage(Len(page), pageSize)
             THEN [workPackage |-> NoWorkPackage, fetches |-> offset, failed |-> FALSE]
             ELSE checkExistingFrom(wps, projectId, normalizedSubject, offset + 1, failAt)

\* checkExistingWorkPackageBySubject(projectId, subject) / findWorkPackageBySubject
checkExistingWorkPackageBySubject(wps, projectId, subject, failAt) ==
    checkExistingFrom(wps, projectId, toLowerCase(trim(subject)), 1, failAt)

\* The requests of a lookup that may fail: none (0), or one of those it issues.
FailPoints(wps, projectId, subject) ==
    IF faults.lookup + faults.mutation + faults.listing >= MaxFaults THEN {0}
    ELSE 0..checkExistingWorkPackageBySubject(wps, projectId, subject, 0).fetches

CanFail == faults.lookup + faults.mutation + faults.listing < MaxFaults

\* A date as the code receives it: a canonical YYYY-MM-DD string (kind "ymd"), or an ISO
\* timestamp (kind "iso") whose text before the T is `text` and whose instant falls on
\* the day `local` in the local time zone.
CanonicalDate(d) == [kind |-> "ymd", text |-> d, local |-> d]

\* parseAndFormatDate(date)
parseAndFormatDate(date) ==
    IF date.kind = "iso" THEN date.text
    ELSE IF date.kind = "ymd" THEN date.text
    ELSE date.local

\* formatDateForComparison(date)
formatDateForComparison(date) ==
    IF date.kind = "ymd" THEN date.text ELSE date.local

\* POST /api/v3/work_packages: the work package the server creates.
newWorkPackage(wps, projectId, subject) ==
    [id |-> Len(wps) + 1, project |-> projectId, subject |-> subject]

\* buildTimeEntryData(...) as the server stores it.
buildTimeEntryData(formattedDate, hours, workPackageId) ==
    [workPackage |-> workPackageId, spentOn |-> formattedDate, hours |-> hours]

-----------------------------------------------------------------------------
(* WorkLogService: analysis (performWorkPackageAnalysis).                  *)

NoLocals == [type |-> "none", workPackageId |-> 0]

\* getUniqueEntries(): the first entry of each key project|subject|hours, in order.
RECURSIVE getUniqueEntriesFrom(_, _, _)
getUniqueEntriesFrom(E, k, uniqueEntries) ==
    IF k > Len(E) THEN uniqueEntries
    ELSE getUniqueEntriesFrom(E, k + 1,
            IF \E j \in 1..Len(uniqueEntries) :
                   /\ E[uniqueEntries[j]].project = E[k].project
                   /\ E[uniqueEntries[j]].subject = E[k].subject
                   /\ E[uniqueEntries[j]].hours = E[k].hours
            THEN uniqueEntries
            ELSE Append(uniqueEntries, k))

\* A getUniqueEntries that keeps every entry.
getUniqueEntries_All(E) == [k \in 1..Len(E) |-> k]

getUniqueEntries(E) == getUniqueEntriesFrom(E, 1, <<>>)

\* performWorkPackageAnalysis(), up to its loop.
PerformWorkPackageAnalysis ==
    /\ pc = "idle"
    /\ Len(returned) < MaxRuns
    /\ pc' = "analysis"
    /\ idx' = 1
    /\ cur' = [type |-> "analysis", uniqueEntries |-> getUniqueEntries(workLogEntries),
               analysisResult |-> [NoAnalysis EXCEPT !.done = TRUE]]
    /\ UNCHANGED <<clientVars, workLogEntries, timeVars, analysisData, remoteVars, results, stats,
                   returned, faults, runDate>>

\* A handleDuplicateEntry that also files the entry as new.
handleDuplicateEntry_AlsoNew(e, existingWp) ==
    /\ workLogEntries' = [workLogEntries EXCEPT ![e].existing_work_package_id = existingWp.id]
    /\ cur' = [cur EXCEPT !.analysisResult.duplicates =
                              Append(@, [entry |-> e,
                                         existing_work_package_id |-> existingWp.id,
                                         existing_subject |-> existingWp.subject]),
                          !.analysisResult.new = Append(@, e)]

\* A handleDuplicateEntry that leaves the entry itself without the id it found.
handleDuplicateEntry_CopyOnly(e, existingWp) ==
    /\ UNCHANGED workLogEntries
    /\ cur' = [cur EXCEPT !.analysisResult.duplicates =
                              Append(@, [entry |-> e,
                                         existing_work_package_id |-> existingWp.id,
                                         existing_subject |-> existingWp.subject])]

\* handleDuplicateEntry(entry, existingWp, analysisResult)
handleDuplicateEntry(e, existingWp) ==
    /\ workLogEntries' = [workLogEntries EXCEPT ![e].existing_work_package_id = existingWp.id]
    /\ cur' = [cur EXCEPT !.analysisResult.duplicates =
                              Append(@, [entry |-> e,
                                         existing_work_package_id |-> existingWp.id,
                                         existing_subject |-> existingWp.subject])]

\* handleNewEntry(entry, analysisResult)
handleNewEntry(e) ==
    /\ cur' = [cur EXCEPT !.analysisResult.new = Append(@, e)]
    /\ UNCHANGED workLogEntries

\* A checkForDuplicatesOrNew that files an entry nowhere when its lookup failed.
checkForDuplicatesOrNew_DropOnError(e, r) ==
    IF r.failed THEN UNCHANGED <<cur, workLogEntries>>
    ELSE IF r.workPackage # NoWorkPackage THEN handleDuplicateEntry(e, r.workPackage)
    ELSE handleNewEntry(e)

\* checkForDuplicatesOrNew(entry, analysisResult), given what the lookup r came to: a
\* failed lookup has returned null.
checkForDuplicatesOrNew(e, r) ==
    IF r.workPackage # NoWorkPackage THEN handleDuplicateEntry(e, r.workPackage)
    ELSE handleNewEntry(e)

\* categorizeEntry(entry, analysisResult): one turn of the loop.
CategorizeEntry ==
    /\ pc = "analysis"
    /\ idx <= Len(cur.uniqueEntries)
    /\ LET e == cur.uniqueEntries[idx]
           entry == workLogEntries[e]
           projectId == PROJECT_MAPPINGS[entry.project]
       IN  IF entry.is_scrum /\ entry.work_package_id # 0
           THEN /\ cur' = [cur EXCEPT !.analysisResult.scrum = Append(@, e)]
                /\ UNCHANGED <<workLogEntries, faults>>
           ELSE IF entry.work_package_id # 0
           THEN /\ cur' = [cur EXCEPT !.analysisResult.existing = Append(@, e)]
                /\ UNCHANGED <<workLogEntries, faults>>
           ELSE \E failAt \in FailPoints(workPackages, projectId, entry.subject) :
                   LET r == checkExistingWorkPackageBySubject(workPackages, projectId,
                                                              entry.subject, failAt)
                   IN  /\ faults' = [faults EXCEPT !.lookup = @ + (IF r.failed THEN 1 ELSE 0)]
                       /\ checkForDuplicatesOrNew(e, r)
    /\ idx' = idx + 1
    /\ UNCHANGED <<clientVars, timeVars, analysisData, remoteVars, pc, results, stats, returned,
                   runDate>>

\* A performWorkPackageAnalysis that creates, before it returns, the work package of
\* the first entry it has found to be new.
PerformWorkPackageAnalysisReturn_CreatesNew ==
    /\ pc = "analysis"
    /\ idx > Len(cur.uniqueEntries)
    /\ analysisData' = cur.analysisResult
    /\ workPackages' =
          IF cur.analysisResult.new = <<>> THEN workPackages
          ELSE LET entry == workLogEntries[cur.analysisResult.new[1]]
               IN  Append(workPackages,
                          newWorkPackage(workPackages, PROJECT_MAPPINGS[entry.project], entry.subject))
    /\ pc' = "idle"
    /\ cur' = NoLocals
    /\ UNCHANGED <<clientVars, workLogEntries, timeVars, timeEntries, idx, results, stats, returned,
                   faults, runDate>>

\* performWorkPackageAnalysis(), after its loop.
PerformWorkPackageAnalysisReturn ==
    /\ pc = "analysis"
    /\ idx > Len(cur.uniqueEntries)
    /\ analysisData' = cur.analysisResult
    /\ pc' = "idle"
    /\ cur' = NoLocals
    /\ UNCHANGED <<clientVars, workLogEntries, timeVars, remoteVars, idx, results, stats, returned,
                   faults, runDate>>

-----------------------------------------------------------------------------
(* WorkLogService: processing (processAllEntries).                         *)

\* getProjectId(projectName)
getProjectId(projectName) == PROJECT_MAPPINGS[projectName]

\* updateStats counting a created work package as an update as well.
updateStats_CountsNewTwice(resultType, st) ==
    IF resultType = "new" THEN [st EXCEPT !.createdCount = @ + 1, !.updatedCount = @ + 1]
    ELSE [st EXCEPT !.updatedCount = @ + 1]

\* updateStats(resultType, stats)
updateStats(resultType, st) ==
    IF resultType = "new" THEN [st EXCEPT !.createdCount = @ + 1]
    ELSE [st EXCEPT !.updatedCount = @ + 1]

\* The catch of processAndTrackEntry losing the error: nothing is recorded.
processAndTrackEntryCatch_NoRecord(message) ==
    /\ results' = results
    /\ stats' = [stats EXCEPT !.errorCount = @ + 1]
    /\ idx' = idx + 1
    /\ pc' = "loop"
    /\ cur' = NoLocals

\* processAndTrackEntry without its try / catch: the error leaves processAllEntries.
processAndTrackEntryCatch_Rethrow(message) ==
    /\ pc' = "rejected"
    /\ cur' = NoLocals
    /\ UNCHANGED <<results, stats, idx>>

\* The catch of processAndTrackEntry: processEntry threw an error with this message.
processAndTrackEntryCatch(message) ==
    /\ results' = Append(results, [success |-> FALSE, entry |-> idx, type |-> "error",
                                   error |-> message, workPackageId |-> 0])
    /\ stats' = [stats EXCEPT !.errorCount = @ + 1]
    /\ idx' = idx + 1
    /\ pc' = "loop"
    /\ cur' = NoLocals

\* The try of processAndTrackEntry: processEntry returned result.
processAndTrackEntryResult(result) ==
    /\ results' = Append(results, [success |-> TRUE, entry |-> idx, type |-> result.type,
                                   error |-> "", workPackageId |-> result.workPackageId])
    /\ stats' = updateStats(result.type, stats)
    /\ idx' = idx + 1
    /\ pc' = "loop"
    /\ cur' = NoLocals

\* No call of the progress callback yet in this run of processAllEntries.
NoProgress == [op |-> "processAllEntries", current |-> 0, total |-> 0, calls |-> 0]

\* notifyProgress returning as it does when no callback was given.
notifyProgress_NoCallback(call, current, total) == call

\* notifyProgress(progressCallback, current, total, entry) with a callback: the call
\* it makes, and how many the run has made.
notifyProgress(call, current, total) ==
    [op |-> "progressCallback", current |-> current, total |-> total, calls |-> call.calls + 1]

\* processAllEntries(commentData, progressCallback), up to its loop.
ProcessAllEntries ==
    /\ pc = "idle"
    /\ Len(returned) < MaxRuns
    /\ pc' = "loop"
    /\ idx' = 1
    /\ results' = <<>>
    /\ stats' = [createdCount |-> 0, updatedCount |-> 0, errorCount |-> 0]
    /\ cur' = NoLocals
    /\ lastCall' = NoProgress
    /\ UNCHANGED <<clientVars, workLogEntries, validationIssues, analysisData, remoteVars, returned, faults, runDate>>

\* One turn of the loop, up to the first request: notifyProgress, processAndTrackEntry
\* and processEntry with enrichEntryMetadata.
ProcessEntry ==
    /\ pc = "loop"
    /\ idx <= Len(workLogEntries)
    /\ LET entry == workLogEntries[idx]
           workPackageId == IF entry.work_package_id # 0 THEN entry.work_package_id
                            ELSE entry.existing_work_package_id
       IN  IF ~analysisData.done
           THEN processAndTrackEntryCatch("TypeError")
           ELSE /\ UNCHANGED <<results, stats, idx>>
                /\ IF entry.is_scrum /\ workPackageId # 0
                   THEN /\ pc' = "createTimeEntry"
                        /\ cur' = [type |-> "scrum", workPackageId |-> workPackageId]
                   ELSE IF entry.existing_work_package_id # 0
                   THEN /\ pc' = "createTimeEntry"
                        /\ cur' = [type |-> "existing", workPackageId |-> entry.existing_work_package_id]
                   ELSE IF entry.work_package_id # 0
                   THEN /\ pc' = "createTimeEntry"
                        /\ cur' = [type |-> "duplicate", workPackageId |-> workPackageId]
                   ELSE /\ pc' = "findWorkPackageBySubject"
                        /\ cur' = NoLocals
    /\ lastCall' = notifyProgress(lastCall, idx, Len(workLogEntries))
    /\ UNCHANGED <<clientVars, workLogEntries, validationIssues, analysisData, remoteVars, returned, faults, runDate>>

\* processNewWorkPackage: the lookup and what follows from it.
FindWorkPackageBySubject ==
    /\ pc = "findWorkPackageBySubject"
    /\ LET entry == workLogEntries[idx]
           projectId == getProjectId(entry.project)
       IN  \E failAt \in FailPoints(workPackages, projectId, entry.subject) :
               LET r == checkExistingWorkPackageBySubject(workPackages, projectId,
                                                          entry.subject, failAt)
                   existingWorkPackage == r.workPackage
               IN  /\ faults' = [faults EXCEPT !.lookup = @ + (IF r.failed THEN 1 ELSE 0)]
                   /\ IF existingWorkPackage # NoWorkPackage
                      THEN /\ pc' = "createTimeEntry"
                           /\ cur' = [type |-> "found_existing",
                                      workPackageId |-> existingWorkPackage.id]
                      ELSE /\ pc' = "createWorkPackage"
                           /\ cur' = NoLocals
    /\ UNCHANGED <<clientVars, workLogEntries, timeVars, analysisData, remoteVars, idx, results, stats,
                   returned, runDate>>

\* createNewWorkPackageWithTime calling createWorkPackage: its own lookup.
CreateWorkPackage ==
    /\ pc = "createWorkPackage"
    /\ LET entry == workLogEntries[idx]
           projectId == getProjectId(entry.project)
       IN  \E failAt \in FailPoints(workPackages, projectId, entry.subject) :
               LET r == checkExistingWorkPackageBySubject(workPackages, projectId,
                                                          entry.subject, failAt)
                   existing == r.workPackage
               IN  /\ faults' = [faults EXCEPT !.lookup = @ + (IF r.failed THEN 1 ELSE 0)]
                   /\ IF existing # NoWorkPackage
                      THEN /\ pc' = "createTimeEntry"
                           /\ cur' = [type |-> "new", workPackageId |-> existing.id]
                      ELSE /\ pc' = "postWorkPackage"
                           /\ cur' = NoLocals
    /\ UNCHANGED <<clientVars, workLogEntries, timeVars, analysisData, remoteVars, idx, results, stats,
                   returned, runDate>>

\* createWorkPackage: POST /api/v3/work_packages.
PostWorkPackage ==
    /\ pc = "postWorkPackage"
    /\ LET entry == workLogEntries[idx]
           workPackage == newWorkPackage(workPackages, getProjectId(entry.project), entry.subject)
       IN  \/ /\ workPackages' = Append(workPackages, workPackage)
              /\ pc' = "createTimeEntry"
              /\ cur' = [type |-> "new", workPackageId |-> workPackage.id]
              /\ UNCHANGED <<faults, results, stats, idx>>
           \/ /\ CanFail
              /\ faults' = [faults EXCEPT !.mutation = @ + 1]
              /\ processAndTrackEntryCatch("HTTP")
              /\ UNCHANGED workPackages
    /\ UNCHANGED <<clientVars, workLogEntries, timeVars, analysisData, timeEntries, returned, runDate>>

\* createTimeEntry(workPackageId, entryDate, ...): POST /api/v3/time_entries, and the
\* return of processEntry to processAndTrackEntry.
CreateTimeEntry ==
    /\ pc = "createTimeEntry"
    /\ LET entry == workLogEntries[idx]
           formattedDate == parseAndFormatDate(CanonicalDate(entry.entry_date))
       IN  IF entry.hours <= 0
           THEN /\ processAndTrackEntryCatch("Invalid hours value")
                /\ UNCHANGED <<timeEntries, faults>>
           ELSE \/ /\ timeEntries' = Append(timeEntries,
                                             buildTimeEntryData(formattedDate, entry.hours, cur.workPackageId))
                   /\ processAndTrackEntryResult(
                          [type |-> cur.type,
                           workPackageId |-> IF cur.type = "new" THEN cur.workPackageId ELSE 0])
                   /\ UNCHANGED faults
                \/ /\ CanFail
                   /\ faults' = [faults EXCEPT !.mutation = @ + 1]
                   /\ processAndTrackEntryCatch("HTTP")
                   /\ UNCHANGED timeEntries
    /\ UNCHANGED <<clientVars, workLogEntries, timeVars, analysisData, workPackages, returned, runDate>>

\* buildProcessingResult(results, stats, totalEntries), with the size of the remote at
\* the return and the lookups that had failed by then.
buildProcessingResult(res, st, totalEntries) ==
    [results |-> res,
     createdCount |-> st.createdCount,
     updatedCount |-> st.updatedCount,
     successCount |-> st.createdCount + st.updatedCount,
     errorCount |-> st.errorCount,
     totalEntries |-> totalEntries,
     remoteWorkPackages |-> Len(workPackages),
     remoteTimeEntries |-> Len(timeEntries),
     failedLookups |-> faults.lookup]

\* processAllEntries(), after its loop.
ProcessAllEntriesReturn ==
    /\ pc = "loop"
    /\ idx > Len(workLogEntries)
    /\ returned' = Append(returned, buildProcessingResult(results, stats, Len(workLogEntries)))
    /\ pc' = "idle"
    /\ UNCHANGED <<clientVars, workLogEntries, timeVars, analysisData, remoteVars, idx, cur, results, stats,
                   faults, runDate>>

\* The subjects of the model: "a", "A " (the same after trim and toLowerCase) and "ab".
Subjects == {<<"a">>, <<"A", " ">>, <<"a", "b">>}

\* Raw entries to process: a new task of the first project under each subject and one
\* of the second project, a task linked to work package 1, a recurring meeting linked
\* to work package 1.
ProcRawEntries ==
    {[project |-> ps[1], subject |-> ps[2], duration_hours |-> 100, break_hours |-> 0,
      is_scrum |-> FALSE, work_package_id |-> 0, date |-> 20251023] :
        ps \in ({"P1"} \X Subjects) \cup {<<"P2", <<"a">>>>}}
    \cup
    {[project |-> "P1", subject |-> <<"a">>, duration_hours |-> 100, break_hours |-> 0,
      is_scrum |-> sc, work_package_id |-> 1, date |-> 20251023] : sc \in BOOLEAN}

ProcInputs == UNION {[1..n -> ProcRawEntries] : n \in 1..MaxProcEntries}

\* The remote before the first run: its work packages carry the ids 1, 2, ...
InitialWorkPackages ==
    UNION {{[k \in 1..n |-> [id |-> k, project |-> w[k][1], subject |-> w[k][2]]] :
                w \in [1..n -> {<<1, <<"a">>>>, <<1, <<"a", "b">>>>, <<2, <<"a", "b">>>>}]} :
           n \in 0..MaxInitWP}

InitProc ==
    /\ \E raws \in ProcInputs : workLogEntries = parsedEntries(raws)
    /\ workPackages \in InitialWorkPackages
    /\ \A k \in 1..Len(workLogEntries) :
          workLogEntries[k].work_package_id # 0 => Len(workPackages) >= 1
    /\ lastCall = NoCall
    /\ validationIssues = <<>>
    /\ analysisData = NoAnalysis
    /\ timeEntries = <<>>
    /\ pc = "idle"
    /\ idx = 0
    /\ cur = NoLocals
    /\ results = <<>>
    /\ stats = [createdCount |-> 0, updatedCount |-> 0, errorCount |-> 0]
    /\ returned = <<>>
    /\ faults = [lookup |-> 0, mutation |-> 0, listing |-> 0]
    /\ runDate = [kind |-> "none"]
    /\ initialized = "ok"
    /\ activeRequests = 0

NextProc ==
    \/ PerformWorkPackageAnalysis
    \/ CategorizeEntry
    \/ PerformWorkPackageAnalysisReturn
    \/ ProcessAllEntries
    \/ ProcessEntry
    \/ FindWorkPackageBySubject
    \/ CreateWorkPackage
    \/ PostWorkPackage
    \/ CreateTimeEntry
    \/ ProcessAllEntriesReturn

\* WorkLogService: analysis and processing runs against the remote, no other writer.
SpecProc == InitProc /\ [][NextProc]_vars

-----------------------------------------------------------------------------
(* OpenProjectTimeLogger: processWorkLogEntries(workLogEntries, date).     *)

NoDetail == [index |-> 0, status |-> "none", work_package_id |-> 0]

\* The date argument: a YYYY-MM-DD string, or an ISO timestamp whose instant falls, in
\* the local time zone, on the day of its text or on the next day.
RunDates ==
    {CanonicalDate(20251023),
     [kind |-> "iso", text |-> 20251023, local |-> 20251023],
     [kind |-> "iso", text |-> 20251023, local |-> 20251024]}

\* handleEntryError, then results.details.push(detail): the catch of processWorkLogEntry.
handleEntryError(message) ==
    /\ results' = [results EXCEPT !.failed = @ + 1,
                                  !.details = Append(@, [cur EXCEPT !.status = "error"])]
    /\ idx' = idx + 1
    /\ pc' = "entry"
    /\ cur' = NoDetail

\* processWorkLogEntries, up to its loop.
ProcessWorkLogEntries ==
    /\ pc = "idle"
    /\ Len(returned) < MaxRuns
    /\ results' = [successful |-> 0, failed |-> 0, details |-> <<>>]
    /\ idx' = 1
    /\ pc' = "entry"
    /\ cur' = NoDetail
    /\ UNCHANGED <<clientVars, workLogEntries, timeVars, analysisData, remoteVars, stats, returned, faults, runDate>>

\* processWorkLogEntry up to the end of ensureWorkPackageExists' lookup.
EnsureWorkPackageExists ==
    /\ pc = "entry"
    /\ idx <= Len(workLogEntries)
    /\ LET entry == workLogEntries[idx]
           detail == [index |-> idx, status |-> "none", work_package_id |-> 0]
       IN  IF entry.work_package_id # 0
           THEN /\ cur' = [detail EXCEPT !.status = "using_existing_work_package",
                                         !.work_package_id = entry.work_package_id]
                /\ pc' = "addTimeEntry"
                /\ UNCHANGED faults
           ELSE \E failAt \in FailPoints(workPackages, entry.project_id, entry.subject) :
                   LET r == checkExistingWorkPackageBySubject(workPackages, entry.project_id,
                                                              entry.subject, failAt)
                       existing == r.workPackage
                   IN  /\ faults' = [faults EXCEPT !.lookup = @ + (IF r.failed THEN 1 ELSE 0)]
                       /\ IF existing # NoWorkPackage
                          THEN /\ cur' = [detail EXCEPT !.status = "reused_existing_work_package",
                                                        !.work_package_id = existing.id]
                               /\ pc' = "addTimeEntry"
                          ELSE /\ cur' = detail
                               /\ pc' = "ensureCreateWorkPackage"
    /\ UNCHANGED <<clientVars, workLogEntries, timeVars, analysisData, remoteVars, idx, results, stats,
                   returned, runDate>>

\* ensureWorkPackageExists calling createWorkPackage: its own lookup.
EnsureCreateWorkPackage ==
    /\ pc = "ensureCreateWorkPackage"
    /\ LET entry == workLogEntries[idx]
       IN  \E failAt \in FailPoints(workPackages, entry.project_id, entry.subject) :
               LET r == checkExistingWorkPackageBySubject(workPackages, entry.project_id,
                                                          entry.subject, failAt)
                   existing == r.workPackage
               IN  /\ faults' = [faults EXCEPT !.lookup = @ + (IF r.failed THEN 1 ELSE 0)]
                   /\ IF existing # NoWorkPackage
                      THEN /\ cur' = [cur EXCEPT !.status = "created_work_package",
                                                 !.work_package_id = existing.id]
                           /\ pc' = "addTimeEntry"
                      ELSE /\ pc' = "ensurePostWorkPackage"
                           /\ UNCHANGED cur
    /\ UNCHANGED <<clientVars, workLogEntries, timeVars, analysisData, remoteVars, idx, results, stats,
                   returned, runDate>>

\* createWorkPackage: POST /api/v3/work_packages, back in ensureWorkPackageExists.
EnsurePostWorkPackage ==
    /\ pc = "ensurePostWorkPackage"
    /\ LET entry == workLogEntries[idx]
           workPackage == newWorkPackage(workPackages, entry.project_id, entry.subject)
       IN  \/ /\ workPackages' = Append(workPackages, workPackage)
              /\ cur' = [cur EXCEPT !.status = "created_work_package",
                                    !.work_package_id = workPackage.id]
              /\ pc' = "addTimeEntry"
              /\ UNCHANGED <<faults, results, idx>>
           \/ /\ CanFail
              /\ faults' = [faults EXCEPT !.mutation = @ + 1]
              /\ handleEntryError("HTTP")
              /\ UNCHANGED workPackages
    /\ UNCHANGED <<clientVars, workLogEntries, timeVars, analysisData, timeEntries, stats, returned, runDate>>

\* checkExistingTimeEntries taking a failed listing for a listing of matches: every
\* listed time entry is returned.
checkExistingTimeEntries_FailsClosed(listed, workPackageId, date, failed) ==
    IF failed THEN listed
    ELSE LET targetDate == formatDateForComparison(date)
             matches(entry) == entry.spentOn = targetDate /\ entry.workPackage = workPackageId
         IN  SelectSeq(listed, matches)

\* checkExistingTimeEntries(workPackageId, date): the listed time entries of that work
\* package spent on formatDateForComparison(date); none if the listing failed. The
\* listing is taken to return every time entry of the remote.
checkExistingTimeEntries(listed, workPackageId, date, failed) ==
    IF failed THEN <<>>
    ELSE LET targetDate == formatDateForComparison(date)
             matches(entry) == entry.spentOn = targetDate /\ entry.workPackage = workPackageId
         IN  SelectSeq(listed, matches)

\* addTimeEntry up to the end of checkExistingTimeEntries.
AddTimeEntry ==
    /\ pc = "addTimeEntry"
    /\ \E failed \in {FALSE} \cup (IF CanFail THEN {TRUE} ELSE {}) :
          LET existingTimeEntries ==
                  checkExistingTimeEntries(timeEntries, cur.work_package_id, runDate, failed)
          IN  /\ faults' = [faults EXCEPT !.listing = @ + (IF failed THEN 1 ELSE 0)]
              /\ IF Len(existingTimeEntries) > 0
                 THEN /\ results' = [results EXCEPT
                                        !.successful = @ + 1,
                                        !.details = Append(@, [cur EXCEPT !.status = "skipped_duplicate_time_entry"])]
                      /\ idx' = idx + 1
                      /\ pc' = "entry"
                      /\ cur' = NoDetail
                 ELSE /\ pc' = "addCreateTimeEntry"
                      /\ UNCHANGED <<results, idx, cur>>
    /\ UNCHANGED <<clientVars, workLogEntries, timeVars, analysisData, remoteVars, stats, returned, runDate>>

\* addTimeEntry calling createTimeEntry(workPackageId, date, ...): POST /api/v3/time_entries.
AddCreateTimeEntry ==
    /\ pc = "addCreateTimeEntry"
    /\ LET entry == workLogEntries[idx]
           formattedDate == parseAndFormatDate(runDate)
       IN  IF entry.hours <= 0
           THEN /\ handleEntryError("Invalid hours value")
                /\ UNCHANGED <<timeEntries, faults>>
           ELSE \/ /\ timeEntries' = Append(timeEntries,
                                             buildTimeEntryData(formattedDate, entry.hours, cur.work_package_id))
                   /\ results' = [results EXCEPT
                                     !.successful = @ + 1,
                                     !.details = Append(@, [cur EXCEPT !.status = "created_time_entry"])]
                   /\ idx' = idx + 1
                   /\ pc' = "entry"
                   /\ cur' = NoDetail
                   /\ UNCHANGED faults
                \/ /\ CanFail
                   /\ faults' = [faults EXCEPT !.mutation = @ + 1]
                   /\ handleEntryError("HTTP")
                   /\ UNCHANGED timeEntries
    /\ UNCHANGED <<clientVars, workLogEntries, timeVars, analysisData, workPackages, stats, returned, runDate>>

\* processWorkLogEntries, after its loop: results, with the size of the remote then.
ProcessWorkLogEntriesReturn ==
    /\ pc = "entry"
    /\ idx > Len(workLogEntries)
    /\ returned' = Append(returned, [successful |-> results.successful,
                                     failed |-> results.failed,
                                     details |-> results.details,
                                     remoteWorkPackages |-> Len(workPackages),
                                     remoteTimeEntries |-> Len(timeEntries)])
    /\ pc' = "idle"
    /\ UNCHANGED <<clientVars, workLogEntries, timeVars, analysisData, remoteVars, idx, cur, results, stats,
                   faults, runDate>>

InitLogger ==
    /\ \E raws \in ProcInputs : workLogEntries = parsedEntries(raws)
    /\ workPackages \in InitialWorkPackages
    /\ \A k \in 1..Len(workLogEntries) :
          workLogEntries[k].work_package_id # 0 => Len(workPackages) >= 1
    /\ runDate \in RunDates
    /\ lastCall = NoCall
    /\ validationIssues = <<>>
    /\ analysisData = NoAnalysis
    /\ timeEntries = <<>>
    /\ pc = "idle"
    /\ idx = 0
    /\ cur = NoDetail
    /\ results = [successful |-> 0, failed |-> 0, details |-> <<>>]
    /\ stats = [createdCount |-> 0, updatedCount |-> 0, errorCount |-> 0]
    /\ returned = <<>>
    /\ faults = [lookup |-> 0, mutation |-> 0, listing |-> 0]
    /\ initialized = "ok"
    /\ activeRequests = 0

NextLogger ==
    \/ ProcessWorkLogEntries
    \/ EnsureWorkPackageExists
    \/ EnsureCreateWorkPackage
    \/ EnsurePostWorkPackage
    \/ AddTimeEntry
    \/ AddCreateTimeEntry
    \/ ProcessWorkLogEntriesReturn

\* OpenProjectTimeLogger: runs of processWorkLogEntries with one date, no other writer.
SpecLogger == InitLogger /\ [][NextLogger]_vars

-----------------------------------------------------------------------------
(* The runs against the remote: what the claims state.                     *)

SameSubject(a, b) == toLowerCase(trim(a)) = toLowerCase(trim(b))

AllSucceeded(run) == \A i \in 1..Len(run.results) : run.results[i].success

InRun == pc \in {"loop", "findWorkPackageBySubject", "createWorkPackage", "postWorkPackage",
                 "createTimeEntry"}

\* C1: with no lookup failing, a step of processAllEntries that creates a work package
\* creates it in a project that held, just before, no work package whose trimmed,
\* lower-cased subject equals the trimmed, lower-cased subject of the created one
\* (the subject of the entry being processed).
C1_NoDuplicateCreation ==
    [][(Len(workPackages') > Len(workPackages) /\ faults'.lookup = 0) =>
          LET created == workPackages'[Len(workPackages')]
          IN  /\ created.subject = workLogEntries[idx].subject
              /\ ~\E k \in 1..Len(workPackages) :
                     /\ workPackages[k].project = created.project
                     /\ SameSubject(workPackages[k].subject, created.subject)]_vars

\* A first run, no lookup having failed, has created a work package for its first
\* entry and has found it again for its second entry, whose subject is written
\* differently but is the same once trimmed and lower-cased.
C1_Witness ==
    /\ faults.lookup = 0
    /\ returned = <<>>
    /\ pc = "loop"
    /\ Len(workLogEntries) = 2
    /\ Len(results) = 2
    /\ workLogEntries[1].project = workLogEntries[2].project
    /\ workLogEntries[1].subject # workLogEntries[2].subject
    /\ SameSubject(workLogEntries[1].subject, workLogEntries[2].subject)
    /\ results[1].success /\ results[1].type = "new"
    /\ results[1].workPackageId = Len(workPackages)
    /\ results[2].success /\ results[2].type = "found_existing"

\* C2: once processAllEntries has run twice on the same entries with no request
\* failing, the second run has added no time entry to the remote.
C2_RerunAddsNoTimeEntry ==
    (Len(returned) = 2 /\ faults.lookup + faults.mutation + faults.listing = 0) =>
        returned[2].remoteTimeEntries = returned[1].remoteTimeEntries

\* C3: once processWorkLogEntries has run twice with the same entries and date and no
\* request failing, the second run has created no time entry and no work package, and
\* every entry that succeeded in the first run is skipped_duplicate_time_entry in the
\* second and counted as successful.
C3_RerunSkipsEverything ==
    (Len(returned) = 2 /\ faults.lookup + faults.mutation + faults.listing = 0) =>
        /\ returned[2].remoteTimeEntries = returned[1].remoteTimeEntries
        /\ returned[2].remoteWorkPackages = returned[1].remoteWorkPackages
        /\ \A i \in 1..Len(workLogEntries) :
              returned[1].details[i].status # "error" =>
                  returned[2].details[i].status = "skipped_duplicate_time_entry"
        /\ returned[2].successful = Len(workLogEntries)

C5_FailureIsLocal ==
    /\ [][faults'.mutation > faults.mutation =>
             /\ Len(results') = Len(results) + 1
             /\ SubSeq(results', 1, Len(results)) = results
             /\ ~results'[Len(results')].success
             /\ results'[Len(results')].entry = idx
             /\ pc' = "loop"
             /\ idx' = idx + 1]_vars
    /\ [](pc # "rejected")
    /\ [](\A r \in 1..Len(returned) : Len(returned[r].results) = Len(workLogEntries))

\* A run has returned in which the first entry failed on a remote mutation and the
\* second entry succeeded.
C5_Witness ==
    \E r \in 1..Len(returned) :
        /\ Len(returned[r].results) = 2
        /\ ~returned[r].results[1].success
        /\ returned[r].results[1].error = "HTTP"
        /\ returned[r].results[2].success
        /\ returned[r].errorCount = 1

\* C6: during a run of processAllEntries the outcomes recorded so far are those of
\* the entries before the current one, in input order; on return results has exactly
\* one record per entry and results[i].entry is workLogEntries[i].
C6_EachEntryOnceInOrder ==
    /\ InRun => /\ Len(results) = idx - 1
                /\ \A i \in 1..Len(results) : results[i].entry = i
    /\ \A r \in 1..Len(returned) :
          /\ Len(returned[r].results) = Len(workLogEntries)
          /\ returned[r].totalEntries = Len(workLogEntries)
          /\ \A i \in 1..Len(workLogEntries) : returned[r].results[i].entry = i

\* Two runs have returned on two different entries, the first of which failed in the
\* first run.
C6_Witness ==
    /\ Len(returned) = 2
    /\ Len(workLogEntries) = 2
    /\ workLogEntries[1] # workLogEntries[2]
    /\ ~returned[1].results[1].success
    /\ returned[1].results[2].success
    /\ returned[2].results[1].success

-----------------------------------------------------------------------------
(* OpenProjectTimeLogger: checkExistingWorkPackageBySubject on its own.    *)

\* The remote a lookup is made against: up to MaxRemoteWP work packages of two projects,
\* with subjects that are equal once trimmed and lower-cased ("a", "A ") or contain one
\* another ("a", "ab").
LookupRemotes ==
    UNION {{[k \in 1..n |-> [id |-> k, project |-> w[k][1], subject |-> w[k][2]]] :
                w \in [1..n -> {<<1, <<"a">>>>, <<1, <<"A", " ">>>>, <<1, <<"a", "b">>>>,
                                <<2, <<"a">>>>}]} :
           n \in 0..MaxRemoteWP}

InitLookup ==
    /\ workLogEntries = <<>>
    /\ lastCall = NoCall
    /\ validationIssues = <<>>
    /\ analysisData = NoAnalysis
    /\ workPackages \in LookupRemotes
    /\ timeEntries = <<>>
    /\ pc = "idle"
    /\ idx = 0
    /\ cur = NoLocals
    /\ results = <<>>
    /\ stats = [createdCount |-> 0, updatedCount |-> 0, errorCount |-> 0]
    /\ returned = <<>>
    /\ faults = [lookup |-> 0, mutation |-> 0, listing |-> 0]
    /\ runDate = [kind |-> "none"]
    /\ initialized = "ok"
    /\ activeRequests = 0

\* One call checkExistingWorkPackageBySubject(projectId, subject), from its first page
\* request to its return; lastCall keeps the arguments and what came of the call.
CheckExistingWorkPackageBySubject ==
    /\ pc = "idle"
    /\ \E projectId \in {1, 2}, subject \in Subjects :
          \E failAt \in FailPoints(workPackages, projectId, subject) :
              LET r == checkExistingWorkPackageBySubject(workPackages, projectId, subject, failAt)
              IN  /\ lastCall' = [op |-> "checkExistingWorkPackageBySubject",
                                  projectId |-> projectId, subject |-> subject,
                                  workPackage |-> r.workPackage, fetches |-> r.fetches,
                                  failed |-> r.failed]
                  /\ faults' = [faults EXCEPT !.lookup = @ + (IF r.failed THEN 1 ELSE 0)]
    /\ UNCHANGED <<workLogEntries, validationIssues, analysisData, remoteVars, pc, idx, cur,
                   results, stats, returned, runDate, clientVars>>

NextLookup == CheckExistingWorkPackageBySubject

\* OpenProjectTimeLogger: lookups by subject against a remote nobody writes to.
SpecLookup == InitLookup /\ [][NextLookup]_vars

\* The work packages of the project of the last lookup that match its query exactly.
ExactMatches ==
    {k \in 1..Len(workPackages) :
        /\ workPackages[k].project = lastCall.projectId
        /\ SameSubject(workPackages[k].subject, lastCall.subject)}

LookedUp == lastCall.op = "checkExistingWorkPackageBySubject"

\* C11, as stated: a lookup returns a work package if and only if some work package of
\* the project has the query's trimmed, lower-cased subject, and what it returns is
\* such a work package.
C11_ExactMatchOnly_AsStated ==
    LookedUp =>
        /\ (lastCall.workPackage # NoWorkPackage) <=> (ExactMatches # {})
        /\ lastCall.workPackage # NoWorkPackage =>
              \E k \in ExactMatches : workPackages[k] = lastCall.workPackage

\* C11, amended: a lookup none of whose page requests failed returns a work package if
\* and only if some work package of the project has the query's trimmed, lower-cased
\* subject; a lookup, failed or not, only ever returns such a work package, never one
\* whose subject merely contains or is contained in the query.
C11_ExactMatchOnly ==
    LookedUp =>
        /\ ~lastCall.failed =>
              ((lastCall.workPackage # NoWorkPackage) <=> (ExactMatches # {}))
        /\ lastCall.workPackage # NoWorkPackage =>
              \E k \in ExactMatches : workPackages[k] = lastCall.workPackage

\* A lookup of "a" that did not fail returned nothing from a project whose only
\* subjects contain the query ("ab") without being equal to it.
C11_Witness ==
    /\ LookedUp
    /\ ~lastCall.failed
    /\ lastCall.subject = <<"a">>
    /\ lastCall.workPackage = NoWorkPackage
    /\ \E k \in 1..Len(workPackages) :
          /\ workPackages[k].project = lastCall.projectId
          /\ workPackages[k].subject = <<"a", "b">>

\* C12: a lookup in a project of count work packages issues at most
\* ceil(count / pageSize) + 1 page requests, and none after a page that held fewer
\* than pageSize items.
C12_PaginationTerminates ==
    LookedUp =>
        LET count == Len(projectWorkPackages(workPackages, lastCall.projectId))
        IN  /\ lastCall.fetches <= ((count + pageSize - 1) \div pageSize) + 1
            /\ \A p \in 1..(lastCall.fetches - 1) :
                  Len(fetchWorkPackagesPage(workPackages, lastCall.projectId, p, pageSize))
                      = pageSize

\* A lookup without a hit in a project holding exactly two full pages: it needed the
\* third, empty page to stop, ceil(count / pageSize) + 1 requests in all.
C12_Witness ==
    /\ LookedUp
    /\ ~lastCall.failed
    /\ lastCall.workPackage = NoWorkPackage
    /\ Len(projectWorkPackages(workPackages, lastCall.projectId)) = 2 * pageSize
    /\ lastCall.fetches = 3

-----------------------------------------------------------------------------
(* The analysis: what the claims state.                                    *)

\* The buckets of the analysis under way, as sequences of entries.
BucketEntries(a) ==
    [scrum |-> a.scrum, existing |-> a.existing, new |-> a.new,
     duplicates |-> [k \in 1..Len(a.duplicates) |-> a.duplicates[k].entry]]

BucketNames == {"scrum", "existing", "duplicates", "new"}

\* This step is one turn of the loop of performWorkPackageAnalysis.
CategorizeStep == pc = "analysis" /\ pc' = "analysis" /\ idx' = idx + 1

\* The first work package of the remote that matches the entry exactly.
FirstExactMatch(e) ==
    LET hits == {k \in 1..Len(workPackages) :
                    /\ workPackages[k].project = PROJECT_MAPPINGS[workLogEntries[e].project]
                    /\ SameSubject(workPackages[k].subject, workLogEntries[e].subject)}
    IN  IF hits = {} THEN NoWorkPackage ELSE workPackages[CHOOSE k \in hits : \A h \in hits : k <= h]

\* C13: a turn of the analysis loop files its entry in exactly one bucket, leaving the
\* other three as they were: scrum if it is recurring with a linked id, else existing
\* if it has a linked id, else duplicates, with the match's id and subject, if its
\* lookup found an exact match, else new. When the analysis has returned every
\* de-duplicated entry is in exactly one bucket.
C13_OneBucketByPrecedence ==
    /\ [][CategorizeStep =>
             LET e == cur.uniqueEntries[idx]
                 entry == workLogEntries[e]
                 before == BucketEntries(cur.analysisResult)
                 after == BucketEntries(cur'.analysisResult)
                 found == IF faults'.lookup > faults.lookup THEN NoWorkPackage
                          ELSE FirstExactMatch(e)
                 bucket == IF entry.is_scrum /\ entry.work_package_id # 0 THEN "scrum"
                           ELSE IF entry.work_package_id # 0 THEN "existing"
                           ELSE IF found # NoWorkPackage THEN "duplicates"
                           ELSE "new"
             IN  /\ after[bucket] = Append(before[bucket], e)
                 /\ \A b \in BucketNames \ {bucket} : after[b] = before[b]
                 /\ bucket = "duplicates" =>
                       LET d == cur'.analysisResult.duplicates[Len(cur'.analysisResult.duplicates)]
                       IN  /\ d.existing_work_package_id = found.id
                           /\ d.existing_subject = found.subject
                           /\ workLogEntries'[e].existing_work_package_id = found.id]_vars
    /\ [](analysisData.done =>
             \A e \in 1..Len(workLogEntries) :
                 (\E k \in 1..Len(getUniqueEntries(workLogEntries)) :
                      getUniqueEntries(workLogEntries)[k] = e)
                 => Cardinality({<<b, k>> \in BucketNames \X (1..Len(workLogEntries)) :
                                    /\ k <= Len(BucketEntries(analysisData)[b])
                                    /\ BucketEntries(analysisData)[b][k] = e}) = 1)

\* An analysis has returned with one entry filed as a duplicate and another filed as
\* scrum or as existing.
C13_Witness ==
    /\ analysisData.done
    /\ pc = "idle"
    /\ Len(analysisData.duplicates) = 1
    /\ Len(analysisData.scrum) + Len(analysisData.existing) = 1

\* C14: a turn of the analysis loop whose lookup fails files its entry in the new
\* bucket and the loop goes on with the next entry; the analysis never raises, and
\* when it has returned every de-duplicated entry has been categorized.
C14_FailOpenCategorization ==
    /\ [][(pc = "analysis" /\ faults'.lookup > faults.lookup) =>
             /\ cur'.analysisResult.new = Append(cur.analysisResult.new, cur.uniqueEntries[idx])
             /\ pc' = "analysis"
             /\ idx' = idx + 1]_vars
    /\ [](pc # "rejected")
    /\ [](analysisData.done =>
             Len(analysisData.scrum) + Len(analysisData.existing)
                 + Len(analysisData.duplicates) + Len(analysisData.new)
               = Len(getUniqueEntries(workLogEntries)))

\* An analysis has returned in which the lookup of the first entry failed although the
\* remote holds a work package with its subject: that entry is in new, and the second
\* entry was still categorized, as a duplicate.
C14_Witness ==
    /\ analysisData.done
    /\ pc = "idle"
    /\ returned = <<>>
    /\ faults.lookup = 1
    /\ analysisData.new = <<1>>
    /\ FirstExactMatch(1) # NoWorkPackage
    /\ Len(analysisData.duplicates) = 1
    /\ analysisData.duplicates[1].entry = 2

-----------------------------------------------------------------------------
(* WorkLogParser: parseDateString.                                         *)

\* s.indexOf('-', k), 0 when there is none.
RECURSIVE indexOfDash(_, _)
indexOfDash(s, k) ==
    IF k > Len(s) THEN 0 ELSE IF s[k] = "-" THEN k ELSE indexOfDash(s, k + 1)

\* The pieces of s between dashes.
RECURSIVE SplitDash(_)
SplitDash(s) ==
    LET p == indexOfDash(s, 1)
    IN  IF p = 0 THEN <<s>>
        ELSE <<SubSeq(s, 1, p - 1)>> \o SplitDash(SubSeq(s, p + 1, Len(s)))

\* \w of a regular expression.
IsWordChar(c) ==
    \/ IsDigit(c)
    \/ c = "_"
    \/ c \in DOMAIN LowerCaseOf
    \/ c \in {LowerCaseOf[u] : u \in DOMAIN LowerCaseOf}

\* /^(\w+)-(\d{1,2})-(\d{4})$/: the three groups of a match, <<>> when there is none.
\* Neither \w nor \d takes a dash, so the groups are the pieces between the dashes.
matchDatePattern(s) ==
    LET parts == SplitDash(s)
    IN  IF /\ Len(parts) = 3
           /\ Len(parts[1]) >= 1
           /\ \A k \in 1..Len(parts[1]) : IsWordChar(parts[1][k])
           /\ Len(parts[2]) \in {1, 2}
           /\ \A k \in 1..Len(parts[2]) : IsDigit(parts[2][k])
           /\ Len(parts[3]) = 4
           /\ \A k \in 1..Len(parts[3]) : IsDigit(parts[3][k])
        THEN parts
        ELSE <<>>

\* getMonthNames()
getMonthNames ==
    (<<"j", "a", "n">> :> 1)
    @@ (<<"j", "a", "n", "u", "a", "r", "y">> :> 1)
    @@ (<<"f", "e", "b">> :> 2)
    @@ (<<"f", "e", "b", "r", "u", "a", "r", "y">> :> 2)
    @@ (<<"m", "a", "r">> :> 3)
    @@ (<<"m", "a", "r", "c", "h">> :> 3)
    @@ (<<"a", "p", "r">> :> 4)
    @@ (<<"a", "p", "r", "i", "l">> :> 4)
    @@ (<<"m", "a", "y">> :> 5)
    @@ (<<"j", "u", "n">> :> 6)
    @@ (<<"j", "u", "n", "e">> :> 6)
    @@ (<<"j", "u", "l">> :> 7)
    @@ (<<"j", "u", "l", "y">> :> 7)
    @@ (<<"a", "u", "g">> :> 8)
    @@ (<<"a", "u", "g", "u", "s", "t">> :> 8)
    @@ (<<"s", "e", "p">> :> 9)
    @@ (<<"s", "e", "p", "t">> :> 9)
    @@ (<<"s", "e", "p", "t", "e", "m", "b", "e", "r">> :> 9)
    @@ (<<"o", "c", "t">> :> 10)
    @@ (<<"o", "c", "t", "o", "b", "e", "r">> :> 10)
    @@ (<<"n", "o", "v">> :> 11)
    @@ (<<"n", "o", "v", "e", "m", "b", "e", "r">> :> 11)
    @@ (<<"d", "e", "c">> :> 12)
    @@ (<<"d", "e", "c", "e", "m", "b", "e", "r">> :> 12)

\* monthNames[monthStr]: the month's number, 0 for undefined, NaN for what parseInt makes
\* of a property every object inherits (monthNames['constructor'] is a function).
monthOf(monthStr) ==
    IF monthStr \in DOMAIN getMonthNames THEN getMonthNames[monthStr]
    ELSE IF monthStr = <<"c", "o", "n", "s", "t", "r", "u", "c", "t", "o", "r">> THEN NaN
    ELSE 0

\* Leap years of the Gregorian calendar, as Date counts them.
IsLeapYear(y) == (y % 4 = 0 /\ y % 100 # 0) \/ y % 400 = 0

daysInMonth(y, mo) ==
    IF mo = 2 THEN (IF IsLeapYear(y) THEN 29 ELSE 28)
    ELSE IF mo \in {4, 6, 9, 11} THEN 30
    ELSE 31

\* new Date(yearNum, monthNum - 1, dayNum) for a day of 1..31: a day beyond the end of
\* the month falls into the next month. An invalid Date (monthNum NaN) has NaN parts.
newDate(yearNum, monthNum, dayNum) ==
    IF monthNum = NaN THEN [year |-> NaN, month |-> NaN, date |-> NaN]
    ELSE IF dayNum <= daysInMonth(yearNum, monthNum)
    THEN [year |-> yearNum, month |-> monthNum, date |-> dayNum]
    ELSE IF monthNum = 12
    THEN [year |-> yearNum + 1, month |-> 1, date |-> dayNum - daysInMonth(yearNum, monthNum)]
    ELSE [year |-> yearNum, month |-> monthNum + 1,
          date |-> dayNum - daysInMonth(yearNum, monthNum)]

\* validateDateComponents: TRUE when it does not throw. A comparison with NaN is false.
validateDateComponents(yearNum, monthNum, dayNum) ==
    /\ ~(yearNum < 1900 \/ yearNum > 3000)
    /\ ~(monthNum # NaN /\ (monthNum < 1 \/ monthNum > 12))
    /\ ~(dayNum < 1 \/ dayNum > 31)

\* A validateActualDate that accepts every day.
validateActualDate_Skipped(yearNum, monthNum, dayNum) == TRUE

\* validateActualDate: TRUE when it does not throw.
validateActualDate(yearNum, monthNum, dayNum) ==
    LET testDate == newDate(yearNum, monthNum, dayNum)
    IN  /\ monthNum # NaN
        /\ testDate.year = yearNum
        /\ testDate.month = monthNum
        /\ testDate.date = dayNum

\* buildDateString(year, month, day, monthStr)
buildDateString(year, month, day) ==
    LET yearNum == parseInt(year)
        monthNum == month
        dayNum == parseInt(day)
    IN  IF /\ validateDateComponents(yearNum, monthNum, dayNum)
           /\ validateActualDate(yearNum, monthNum, dayNum)
        THEN [ok |-> TRUE,
              value |-> String(yearNum) \o <<"-">> \o padStart2(String(monthNum))
                          \o <<"-">> \o padStart2(String(dayNum))]
        ELSE [ok |-> FALSE, value |-> <<>>]

\* parseDateString(dateStr): the canonical date, or ok = FALSE when it throws.
parseDateString(dateStr) ==
    LET match == matchDatePattern(toLowerCase(dateStr))
    IN  IF match = <<>> THEN [ok |-> FALSE, value |-> <<>>]
        ELSE IF monthOf(match[1]) = 0 THEN [ok |-> FALSE, value |-> <<>>]
        ELSE buildDateString(match[3], monthOf(match[1]), match[2])

\* The month, day and year texts that date strings are made of.
MonthTexts ==
    {<<"s", "e", "p", "t">>,
     <<"S", "e", "p">>,
     <<"S", "E", "P", "T", "E", "M", "B", "E", "R">>,
     <<"f", "e", "b">>,
     <<"F", "e", "b">>,
     <<"a", "p", "r">>,
     <<"d", "e", "c">>,
     <<"x", "y", "z">>,
     <<"c", "o", "n", "s", "t", "r", "u", "c", "t", "o", "r">>,
     <<"1", "0">>,
     <<"s", "e", " ", "p", "t">>}

DayTexts ==
    {<<"0">>,
     <<"7">>,
     <<"0", "7">>,
     <<"2", "8">>,
     <<"2", "9">>,
     <<"3", "0">>,
     <<"3", "1">>,
     <<"3", "2">>,
     <<"1", "2", "3">>,
     <<>>}

YearTexts ==
    {<<"1", "8", "9", "9">>,
     <<"1", "9", "0", "0">>,
     <<"2", "0", "2", "4">>,
     <<"2", "0", "2", "5">>,
     <<"2", "1", "0", "0">>,
     <<"3", "0", "0", "0">>,
     <<"3", "0", "0", "1">>,
     <<"2", "0", "2", "5", "5">>}

InitDate ==
    /\ workLogEntries = <<>>
    /\ lastCall = NoCall
    /\ validationIssues = <<>>
    /\ analysisData = NoAnalysis
    /\ workPackages = <<>>
    /\ timeEntries = <<>>
    /\ pc = "idle"
    /\ idx = 0
    /\ \E mo \in MonthTexts, d \in DayTexts, y \in YearTexts :
          cur = [monthText |-> mo, dayText |-> d, yearText |-> y,
                 dateStr |-> mo \o <<"-">> \o d \o <<"-">> \o y]
    /\ results = <<>>
    /\ stats = [createdCount |-> 0, updatedCount |-> 0, errorCount |-> 0]
    /\ returned = <<>>
    /\ faults = [lookup |-> 0, mutation |-> 0, listing |-> 0]
    /\ runDate = [kind |-> "none"]
    /\ initialized = "ok"
    /\ activeRequests = 0

\* One call parseDateString(dateStr); lastCall keeps what came of it.
ParseDateString ==
    /\ pc = "idle"
    /\ lastCall = NoCall
    /\ LET r == parseDateString(cur.dateStr)
       IN  lastCall' = [op |-> "parseDateString", ok |-> r.ok, value |-> r.value]
    /\ UNCHANGED <<workLogEntries, validationIssues, analysisData, remoteVars, pc, idx, cur,
                   results, stats, returned, faults, runDate, clientVars>>

NextDate == ParseDateString

\* WorkLogParser: parseDateString applied to one date string.
SpecDate == InitDate /\ [][NextDate]_vars

\* The month a name of the 12-entry table stands for, abbreviated or in full; 0 for
\* any other text.
MonthNumber(name) ==
    LET abbreviated == <<<<"j", "a", "n">>, <<"f", "e", "b">>, <<"m", "a", "r">>, <<"a", "p", "r">>, <<"m", "a", "y">>, <<"j", "u", "n">>, <<"j", "u", "l">>, <<"a", "u", "g">>, <<"s", "e", "p">>, <<"o", "c", "t">>, <<"n", "o", "v">>, <<"d", "e", "c">>>>
        full == <<<<"j", "a", "n", "u", "a", "r", "y">>, <<"f", "e", "b", "r", "u", "a", "r", "y">>, <<"m", "a", "r", "c", "h">>,
                  <<"a", "p", "r", "i", "l">>, <<"m", "a", "y">>, <<"j", "u", "n", "e">>,
                  <<"j", "u", "l", "y">>, <<"a", "u", "g", "u", "s", "t">>, <<"s", "e", "p", "t", "e", "m", "b", "e", "r">>,
                  <<"o", "c", "t", "o", "b", "e", "r">>, <<"n", "o", "v", "e", "m", "b", "e", "r">>, <<"d", "e", "c", "e", "m", "b", "e", "r">>>>
        hits == {k \in 1..12 : name = abbreviated[k] \/ name = full[k]}
    IN  IF name = <<"s", "e", "p", "t">> THEN 9
        ELSE IF hits = {} THEN 0
        ELSE CHOOSE k \in hits : TRUE

AllDigits(text) == \A k \in 1..Len(text) : IsDigit(text[k])

\* The number a text of decimal digits writes.
RECURSIVE NumberOf(_)
NumberOf(text) ==
    IF text = <<>> THEN 0
    ELSE 10 * NumberOf(SubSeq(text, 1, Len(text) - 1)) + DigitVal(text[Len(text)])

\* Day d exists in month mo of year y.
DayExists(y, mo, d) ==
    /\ d >= 1
    /\ d <= (CASE mo \in {1, 3, 5, 7, 8, 10, 12} -> 31
               [] mo \in {4, 6, 9, 11} -> 30
               [] OTHER -> IF y % 400 = 0 \/ (y % 4 = 0 /\ y % 100 # 0) THEN 29 ELSE 28)

TwoDigits(n) == <<Digits[(n \div 10) + 1], Digits[(n % 10) + 1]>>

\* The date string of the call is a token month-day-year of a real calendar day.
IsCalendarToken ==
    /\ MonthNumber(toLowerCase(cur.monthText)) # 0
    /\ Len(cur.dayText) \in {1, 2} /\ AllDigits(cur.dayText)
    /\ Len(cur.yearText) = 4 /\ AllDigits(cur.yearText)
    /\ NumberOf(cur.yearText) >= 1900 /\ NumberOf(cur.yearText) <= 3000
    /\ DayExists(NumberOf(cur.yearText), MonthNumber(toLowerCase(cur.monthText)),
                 NumberOf(cur.dayText))

\* C18: parseDateString succeeds exactly on the tokens month-day-year whose month is a
\* name of the table (any case, sep and sept both September), whose year is in
\* 1900..3000 and whose day exists in that month of that year; what it returns is the
\* zero-padded YYYY-MM-DD of that day.
C18_ParseDateString ==
    lastCall.op = "parseDateString" =>
        /\ lastCall.ok <=> IsCalendarToken
        /\ lastCall.ok =>
              lastCall.value = cur.yearText \o <<"-">>
                                 \o TwoDigits(MonthNumber(toLowerCase(cur.monthText)))
                                 \o <<"-">> \o TwoDigits(NumberOf(cur.dayText))

\* SEPTEMBER-7-2025 has been parsed to 2025-09-07.
C18_Witness ==
    /\ lastCall.op = "parseDateString"
    /\ cur.dateStr = <<"S", "E", "P", "T", "E", "M", "B", "E", "R", "-", "7", "-", "2", "0", "2", "5">>
    /\ lastCall.ok
    /\ lastCall.value = <<"2", "0", "2", "5", "-", "0", "9", "-", "0", "7">>

-----------------------------------------------------------------------------
(* WorkLogParser: parseWorkLogFile.                                        *)

\* The values of a parsed JSON document the parser reads from a raw entry: a field
\* that is absent reads as undefined. Hours are numbers in hundredths of an hour.
JUndefined == [t |-> "undefined", s |-> <<>>, n |-> 0, b |-> FALSE]

JNull == [t |-> "null", s |-> <<>>, n |-> 0, b |-> FALSE]

JString(str) == [t |-> "string", s |-> str, n |-> 0, b |-> FALSE]

JNumber(num) == [t |-> "number", s |-> <<>>, n |-> num, b |-> FALSE]

JBoolean(bool) == [t |-> "boolean", s |-> <<>>, n |-> 0, b |-> bool]

\* !!v
Truthy(v) ==
    CASE v.t = "string" -> v.s # <<>>
      [] v.t = "number" -> v.n # 0 /\ v.n # NaN
      [] v.t = "boolean" -> v.b
      [] OTHER -> FALSE

\* parseFloat(v) / parseInt(v) of a number, or of a string of decimal digits read as
\* whole hours or as an integer: NaN for every other value.
parseNumber(v, unit) ==
    CASE v.t = "number" -> v.n
      [] v.t = "string" -> IF parseInt(trimStart(v.s)) = NaN THEN NaN
                           ELSE parseInt(trimStart(v.s)) * unit
      [] OTHER -> NaN

\* The key of PROJECT_MAPPINGS a project name is, "" when it is none.
ProjectKey(name) ==
    IF name = <<"P", "1">> THEN "P1" ELSE IF name = <<"P", "2">> THEN "P2" ELSE ""

RequiredFields == <<"project", "subject", "duration_hours", "activity", "is_scrum">>

\* validateRequiredFields(entryData, prefix, errors)
RECURSIVE validateRequiredFieldsFrom(_, _)
validateRequiredFieldsFrom(entryData, k) ==
    IF k > Len(RequiredFields) THEN <<>>
    ELSE LET field == RequiredFields[k]
         IN  (IF entryData[field].t = "undefined" THEN <<<<"missing", field>>>>
              ELSE IF entryData[field].t = "null" THEN <<<<"null", field>>>>
              ELSE <<>>) \o validateRequiredFieldsFrom(entryData, k + 1)

validateRequiredFields(entryData) == validateRequiredFieldsFrom(entryData, 1)

\* validateProjectMapping(entryData, prefix, errors)
validateProjectMapping(entryData) ==
    IF ~Truthy(entryData.project) THEN <<>>
    ELSE IF /\ entryData.project.t = "string"
            /\ ProjectKey(entryData.project.s) \in DOMAIN PROJECT_MAPPINGS
    THEN <<>>
    ELSE <<<<"invalid", "project">>>>

\* validateFieldTypes(entryData, prefix, errors)
validateFieldTypes(entryData) ==
    (IF /\ entryData.subject.t # "undefined"
        /\ (entryData.subject.t # "string" \/ trim(entryData.subject.s) = <<>>)
     THEN <<<<"type", "subject">>>> ELSE <<>>)
    \o (IF /\ entryData.duration_hours.t # "undefined"
           /\ (parseNumber(entryData.duration_hours, 100) = NaN
                 \/ parseNumber(entryData.duration_hours, 100) <= 0)
        THEN <<<<"type", "duration_hours">>>> ELSE <<>>)
    \o (IF entryData.is_scrum.t \notin {"undefined", "boolean"}
        THEN <<<<"type", "is_scrum">>>> ELSE <<>>)
    \o (IF /\ entryData.break_hours.t \notin {"undefined", "null"}
           /\ (parseNumber(entryData.break_hours, 100) = NaN
                 \/ parseNumber(entryData.break_hours, 100) < 0)
        THEN <<<<"type", "break_hours">>>> ELSE <<>>)
    \o (IF /\ entryData.work_package_id.t \notin {"undefined", "null"}
           /\ (parseNumber(entryData.work_package_id, 1) = NaN
                 \/ parseNumber(entryData.work_package_id, 1) <= 0)
        THEN <<<<"type", "work_package_id">>>> ELSE <<>>)

\* validateEntryData(entryData, entryIndex): the errors of a raw entry.
validateEntryData(entryData) ==
    validateRequiredFields(entryData) \o validateProjectMapping(entryData)
        \o validateFieldTypes(entryData)

\* parseDurationHours(durationHours)
parseDurationHours(durationHours) ==
    IF ~Truthy(durationHours) THEN 0 ELSE OrZero(parseNumber(durationHours, 100))

\* A parseJsonTaskEntry that returns a recurring meeting without its work package id.
parseRawTaskEntry_KeepsScrum(entryData, startTime, entryDate) ==
    IF ~Truthy(entryData.project) \/ ~Truthy(entryData.subject) THEN <<>>
    ELSE IF parseDurationHours(entryData.duration_hours) = 0 THEN <<>>
    ELSE <<parseJsonTaskEntry(
               [project |-> ProjectKey(entryData.project.s),
                subject |-> entryData.subject.s,
                duration_hours |-> parseDurationHours(entryData.duration_hours),
                break_hours |-> IF Truthy(entryData.break_hours)
                                THEN entryData.break_hours.n ELSE 0,
                is_scrum |-> Truthy(entryData.is_scrum),
                work_package_id |-> IF Truthy(entryData.work_package_id)
                                    THEN parseNumber(entryData.work_package_id, 1) ELSE 0],
               startTime, entryDate)>>

\* parseJsonTaskEntry(entryData, startTime, entryDate) of a raw entry: <<>> for null,
\* else the one entry it returns.
parseRawTaskEntry(entryData, startTime, entryDate) ==
    IF ~Truthy(entryData.project) \/ ~Truthy(entryData.subject) THEN <<>>
    ELSE IF parseDurationHours(entryData.duration_hours) = 0 THEN <<>>
    ELSE IF Truthy(entryData.is_scrum) /\ ~Truthy(entryData.work_package_id) THEN <<>>
    ELSE <<parseJsonTaskEntry(
               [project |-> ProjectKey(entryData.project.s),
                subject |-> entryData.subject.s,
                duration_hours |-> parseDurationHours(entryData.duration_hours),
                break_hours |-> IF Truthy(entryData.break_hours)
                                THEN entryData.break_hours.n ELSE 0,
                is_scrum |-> Truthy(entryData.is_scrum),
                work_package_id |-> IF Truthy(entryData.work_package_id)
                                    THEN parseNumber(entryData.work_package_id, 1) ELSE 0],
               startTime, entryDate)>>

\* The loop of the parser's processDateEntries from entry k on.
RECURSIVE parseDateEntriesFrom(_, _, _, _)
parseDateEntriesFrom(entries, k, currentTime, parsedDate) ==
    IF k > Len(entries) THEN <<>>
    ELSE IF validateEntryData(entries[k]) # <<>>
    THEN parseDateEntriesFrom(entries, k + 1, currentTime, parsedDate)
    ELSE LET entry == parseRawTaskEntry(entries[k], currentTime, parsedDate)
         IN  IF entry = <<>>
             THEN parseDateEntriesFrom(entries, k + 1, currentTime, parsedDate)
             ELSE entry \o parseDateEntriesFrom(entries, k + 1, entry[1].end_seconds, parsedDate)

\* WorkLogParser.processDateEntries(entries, dateStr, parsedDate)
parseDateEntries(entries, parsedDate) == parseDateEntriesFrom(entries, 1, 9 * 3600, parsedDate)

\* The canonical date YYYY-MM-DD as the number YYYYMMDD.
dateNumber(value) ==
    parseInt(SubSeq(value, 1, 4)) * 10000 + parseInt(SubSeq(value, 6, 7)) * 100
        + parseInt(SubSeq(value, 9, 10))

\* allTimeEntries[parsedDate] = timeEntries: a date already there keeps its place.
setDate(allTimeEntries, parsedDate, dateEntries) ==
    IF \E k \in 1..Len(allTimeEntries) : allTimeEntries[k].date = parsedDate
    THEN [k \in 1..Len(allTimeEntries) |->
            IF allTimeEntries[k].date = parsedDate
            THEN [date |-> parsedDate, entries |-> dateEntries] ELSE allTimeEntries[k]]
    ELSE Append(allTimeEntries, [date |-> parsedDate, entries |-> dateEntries])

\* A shouldCheckForDuplicates that takes every entry.
shouldCheckForDuplicates_All(entry) == TRUE

\* shouldCheckForDuplicates(entry)
shouldCheckForDuplicates(entry) == entry.work_package_id = 0 /\ ~entry.is_scrum

\* groupEntriesByProject(entries) as checkProjectDuplicates walks it: the indexes of the
\* entries to check, project by project in the order of the project ids.
RECURSIVE projectEntries(_, _, _)
projectEntries(entries, projectId, k) ==
    IF k > Len(entries) THEN <<>>
    ELSE (IF shouldCheckForDuplicates(entries[k]) /\ entries[k].project_id = projectId
          THEN <<k>> ELSE <<>>) \o projectEntries(entries, projectId, k + 1)

groupEntriesByProject(entries) == projectEntries(entries, 1, 1) \o projectEntries(entries, 2, 1)

\* The raw entries of the model: a new task, a linked one, a recurring meeting with
\* and one without its work package id.
ValidRawEntries ==
    {[project |-> JString(k[1]), subject |-> JString(k[2]), duration_hours |-> JNumber(250),
      activity |-> JString(<<"D">>), is_scrum |-> JBoolean(k[3]), break_hours |-> JUndefined,
      work_package_id |-> k[4]] :
        k \in {<<<<"P", "1">>, <<"a">>, FALSE, JNull>>,
               <<<<"P", "1">>, <<"a", "b">>, FALSE, JNumber(1)>>,
               <<<<"P", "1">>, <<"a">>, TRUE, JNumber(1)>>,
               <<<<"P", "1">>, <<"a">>, TRUE, JNull>>}}

\* The new task "a" of project P1 with one defect each.
InvalidRawEntries ==
    LET base == [project |-> JString(<<"P", "1">>), subject |-> JString(<<"a">>),
                 duration_hours |-> JNumber(250), activity |-> JString(<<"D">>),
                 is_scrum |-> JBoolean(FALSE), break_hours |-> JUndefined,
                 work_package_id |-> JNull]
    IN  {[base EXCEPT !.project = JUndefined],
         [base EXCEPT !.subject = JNull],
         [base EXCEPT !.project = JString(<<"P", "X">>)],
         [base EXCEPT !.subject = JString(<<" ">>)],
         [base EXCEPT !.duration_hours = JNumber(0)],
         [base EXCEPT !.is_scrum = JString(<<"t", "r", "u", "e">>)],
         [base EXCEPT !.break_hours = JNumber(0 - 50)],
         [base EXCEPT !.work_package_id = JNumber(0)]}

MaxFileEntries == 3

MaxLogEntries == 2

\* The dates of the two log objects of a file: the same day written in two ways, two
\* days, and a date that does not exist before one that does.
LogDates ==
    LET sept7 == <<"s", "e", "p", "t", "-", "7", "-", "2", "0", "2", "5">>
        sep07 == <<"S", "E", "P", "-", "0", "7", "-", "2", "0", "2", "5">>
        oct31 == <<"o", "c", "t", "-", "3", "1", "-", "2", "0", "2", "5">>
        sept31 == <<"s", "e", "p", "t", "-", "3", "1", "-", "2", "0", "2", "5">>
    IN  {<<sept7, sep07>>, <<sept7, oct31>>, <<sept31, sept7>>}

\* The files of the model: two log objects with at most MaxFileEntries raw entries,
\* at most one of them with a defect; and the file whose logs array is empty.
LogEntries ==
    UNION {[1..n -> ValidRawEntries \cup InvalidRawEntries] : n \in 0..MaxLogEntries}

InvalidCount(entries) ==
    Cardinality({k \in 1..Len(entries) : entries[k] \in InvalidRawEntries})

ParseFiles ==
    {<<>>} \cup
    UNION {{<<[date |-> d[1], entries |-> e1], [date |-> d[2], entries |-> e2]>> :
              e2 \in {e \in LogEntries : /\ Len(e1) + Len(e) <= MaxFileEntries
                                         /\ InvalidCount(e1) + InvalidCount(e) <= 1}} :
           d \in LogDates, e1 \in LogEntries}

ParseRemotes == {<<>>, <<[id |-> 1, project |-> 1, subject |-> <<"a">>]>>}

NoParse ==
    [logs |-> <<>>, validateAgainstServer |-> TRUE, throwOnServerDuplicates |-> TRUE,
     allTimeEntries |-> <<>>, allEntries |-> <<>>, toCheck |-> <<>>, lookedUp |-> <<>>,
     requests |-> 0, duplicateErrors |-> <<>>]

InitParse ==
    /\ workLogEntries = <<>>
    /\ lastCall = NoCall
    /\ validationIssues = <<>>
    /\ analysisData = NoAnalysis
    /\ workPackages \in ParseRemotes
    /\ timeEntries = <<>>
    /\ pc = "idle"
    /\ idx = 0
    /\ \E logs \in ParseFiles : cur = [NoParse EXCEPT !.logs = logs]
    /\ results = <<>>
    /\ stats = [createdCount |-> 0, updatedCount |-> 0, errorCount |-> 0]
    /\ returned = <<>>
    /\ faults = [lookup |-> 0, mutation |-> 0, listing |-> 0]
    /\ runDate = [kind |-> "none"]
    /\ initialized = "never"
    /\ activeRequests = 0

\* parseWorkLogFile(file, options) of a .json file that JSON.parse reads, as far as the
\* tests of parseJsonWorkLogContent on its logs array.
ParseWorkLogFile(validateAgainstServer, throwOnServerDuplicates) ==
    /\ pc = "idle"
    /\ returned = <<>>
    /\ cur' = [cur EXCEPT !.validateAgainstServer = validateAgainstServer,
                          !.throwOnServerDuplicates = throwOnServerDuplicates]
    /\ IF cur.logs = <<>>
       THEN /\ returned' = <<[op |-> "parseWorkLogFile", ok |-> FALSE,
                              allTimeEntries |-> <<>>, serverDuplicates |-> <<>>]>>
            /\ UNCHANGED <<pc, idx>>
       ELSE /\ pc' = "processLogEntries"
            /\ idx' = 1
            /\ UNCHANGED returned
    /\ UNCHANGED <<workLogEntries, timeVars, analysisData, remoteVars, results, stats, faults,
                   runDate, clientVars>>

\* A loop over the logs that ends after its first round.
logsProcessed_AfterFirst(logIndex, logs) == logIndex > 1

\* The loop of processLogEntries has ended: logIndex < logs.length is false.
logsProcessed(logIndex, logs) == logIndex > Len(logs)

\* One round of the loop of processLogEntries: processLogEntry(logs[idx], idx).
ProcessLogEntry ==
    /\ pc = "processLogEntries"
    /\ idx <= Len(cur.logs)
    /\ LET logEntry == cur.logs[idx]
           parsed == parseDateString(logEntry.date)
           dateEntries == parseDateEntries(logEntry.entries, dateNumber(parsed.value))
       IN  IF logEntry.date = <<>> \/ ~parsed.ok \/ dateEntries = <<>>
           THEN UNCHANGED cur
           ELSE cur' = [cur EXCEPT
                          !.allTimeEntries = setDate(@, dateNumber(parsed.value), dateEntries),
                          !.allEntries = @ \o dateEntries]
    /\ idx' = idx + 1
    /\ UNCHANGED <<workLogEntries, timeVars, analysisData, remoteVars, pc, results, stats,
                   returned, faults, runDate, clientVars>>

\* parseJsonWorkLogContent after processLogEntries, without the check against the server.
SkipServerDuplicateValidation ==
    /\ pc = "processLogEntries"
    /\ logsProcessed(idx, cur.logs)
    /\ ~(cur.validateAgainstServer /\ cur.allEntries # <<>>)
    /\ pc' = "parseReturn"
    /\ UNCHANGED <<workLogEntries, timeVars, analysisData, remoteVars, idx, cur, results, stats,
                   returned, faults, runDate, clientVars>>

\* addServerDuplicateValidation as far as initializeApiClient: the client's initialize
\* throws when the stored settings lack the base URL or the token, and
\* validateAgainstServerDuplicates then returns no duplicates.
InitializeApiClient ==
    /\ pc = "processLogEntries"
    /\ logsProcessed(idx, cur.logs)
    /\ cur.validateAgainstServer /\ cur.allEntries # <<>>
    /\ \E ok \in BOOLEAN :
          IF ok
          THEN /\ initialized' = "ok"
               /\ cur' = [cur EXCEPT !.toCheck = groupEntriesByProject(cur.allEntries)]
               /\ pc' = "checkProjectDuplicates"
               /\ idx' = 1
          ELSE /\ initialized' = "failed"
               /\ pc' = "parseReturn"
               /\ UNCHANGED <<cur, idx>>
    /\ UNCHANGED <<workLogEntries, timeVars, analysisData, remoteVars, results, stats,
                   returned, faults, runDate, activeRequests>>

\* checkEntryDuplicate(entry, projectId, originalIndex) for the next entry to check.
CheckEntryDuplicate ==
    /\ pc = "checkProjectDuplicates"
    /\ idx <= Len(cur.toCheck)
    /\ LET originalIndex == cur.toCheck[idx]
           entry == cur.allEntries[originalIndex]
       IN  \E failAt \in FailPoints(workPackages, entry.project_id, entry.subject) :
              LET r == checkExistingWorkPackageBySubject(workPackages, entry.project_id,
                                                         entry.subject, failAt)
              IN  /\ cur' = [cur EXCEPT
                               !.lookedUp = Append(@, originalIndex),
                               !.requests = @ + r.fetches,
                               !.duplicateErrors =
                                   IF r.workPackage = NoWorkPackage THEN @
                                   ELSE Append(@, [entryIndex |-> originalIndex,
                                                   subject |-> entry.subject,
                                                   projectId |-> entry.project_id,
                                                   existingWorkPackageId |-> r.workPackage.id])]
                  /\ faults' = [faults EXCEPT !.lookup = @ + (IF r.failed THEN 1 ELSE 0)]
    /\ idx' = idx + 1
    /\ UNCHANGED <<workLogEntries, timeVars, analysisData, remoteVars, pc, results, stats,
                   returned, runDate, clientVars>>

\* checkProjectDuplicates after its loops.
CheckProjectDuplicatesReturn ==
    /\ pc = "checkProjectDuplicates"
    /\ idx > Len(cur.toCheck)
    /\ pc' = "parseReturn"
    /\ UNCHANGED <<workLogEntries, timeVars, analysisData, remoteVars, idx, cur, results, stats,
                   returned, faults, runDate, clientVars>>

\* return allTimeEntries, with _serverDuplicates when there are any.
ParseWorkLogFileReturn ==
    /\ pc = "parseReturn"
    /\ returned' = <<[op |-> "parseWorkLogFile", ok |-> TRUE,
                      allTimeEntries |-> cur.allTimeEntries,
                      serverDuplicates |-> cur.duplicateErrors]>>
    /\ pc' = "idle"
    /\ UNCHANGED <<workLogEntries, timeVars, analysisData, remoteVars, idx, cur, results, stats,
                   faults, runDate, clientVars>>

NextParse ==
    \/ \E validateAgainstServer \in BOOLEAN, throwOnServerDuplicates \in BOOLEAN :
          ParseWorkLogFile(validateAgainstServer, throwOnServerDuplicates)
    \/ ProcessLogEntry
    \/ SkipServerDuplicateValidation
    \/ InitializeApiClient
    \/ CheckEntryDuplicate
    \/ CheckProjectDuplicatesReturn
    \/ ParseWorkLogFileReturn

\* WorkLogParser: one call of parseWorkLogFile.
SpecParse == InitParse /\ [][NextParse]_vars

-----------------------------------------------------------------------------
(* Claims about parseWorkLogFile.                                          *)

\* parseWorkLogFile has returned or thrown.
ParseDone == returned # <<>> /\ returned[1].op = "parseWorkLogFile"

\* C15: with the default options, parseWorkLogFile aborts with an error when the check
\* against the server has found a work package with the subject of a parsed entry; with
\* throwOnServerDuplicates = false it returns the entries with the duplicates attached.
C15_AbortOnServerDuplicates ==
    (ParseDone /\ cur.validateAgainstServer /\ cur.duplicateErrors # <<>>) =>
        IF cur.throwOnServerDuplicates
        THEN ~returned[1].ok
        ELSE /\ returned[1].ok
             /\ returned[1].allTimeEntries = cur.allTimeEntries
             /\ returned[1].serverDuplicates = cur.duplicateErrors

\* C16: with validateAgainstServer = false, parseWorkLogFile issues no remote request
\* and its result has no list of server duplicates; with validateAgainstServer = true
\* the entries looked up on the server are neither recurring nor linked to a work
\* package id.
C16_ServerCheckOnlyWhenAsked ==
    /\ ~cur.validateAgainstServer =>
          /\ cur.requests = 0
          /\ cur.lookedUp = <<>>
          /\ ParseDone => returned[1].serverDuplicates = <<>>
    /\ \A k \in 1..Len(cur.lookedUp) :
          /\ ~cur.allEntries[cur.lookedUp[k]].is_scrum
          /\ cur.allEntries[cur.lookedUp[k]].work_package_id = 0

\* A file with a new task, a linked task and a recurring meeting has been parsed with
\* the check against the server: the new task alone was looked up.
C16_Witness ==
    /\ ParseDone
    /\ returned[1].ok
    /\ cur.validateAgainstServer
    /\ Len(cur.lookedUp) = 1
    /\ \E k \in 1..Len(cur.allEntries) : cur.allEntries[k].is_scrum
    /\ \E k \in 1..Len(cur.allEntries) :
          ~cur.allEntries[k].is_scrum /\ cur.allEntries[k].work_package_id # 0

\* A raw entry without any of the validation errors.
RawIsValid(raw) ==
    /\ \A field \in {"project", "subject", "duration_hours", "activity", "is_scrum"} :
          raw[field].t \notin {"undefined", "null"}
    /\ raw.project.t = "string" /\ raw.project.s \in {<<"P", "1">>, <<"P", "2">>}
    /\ raw.subject.t = "string" /\ trim(raw.subject.s) # <<>>
    /\ raw.duration_hours.t = "number" /\ raw.duration_hours.n > 0
    /\ raw.is_scrum.t = "boolean"
    /\ raw.break_hours.t \in {"undefined", "null"}
          \/ (raw.break_hours.t = "number" /\ raw.break_hours.n >= 0)
    /\ raw.work_package_id.t \in {"undefined", "null"}
          \/ (raw.work_package_id.t = "number" /\ raw.work_package_id.n > 0)

\* What identifies a task in a file and in a result: its date, subject, kind and work
\* package id.
RECURSIVE RawTasks(_, _, _)
RawTasks(entries, k, date) ==
    IF k > Len(entries) THEN <<>>
    ELSE (IF /\ RawIsValid(entries[k])
             /\ ~(entries[k].is_scrum.b /\ entries[k].work_package_id.t # "number")
          THEN <<[date |-> date, subject |-> entries[k].subject.s,
                  is_scrum |-> entries[k].is_scrum.b,
                  work_package_id |-> entries[k].work_package_id.n]>>
          ELSE <<>>) \o RawTasks(entries, k + 1, date)

\* The valid tasks of the logs of a file with a date that exists, in source order; a
\* recurring meeting without its work package id is none of them.
RECURSIVE FileTasks(_, _)
FileTasks(logs, k) ==
    IF k > Len(logs) THEN <<>>
    ELSE (IF parseDateString(logs[k].date).ok
          THEN RawTasks(logs[k].entries, 1, dateNumber(parseDateString(logs[k].date).value))
          ELSE <<>>) \o FileTasks(logs, k + 1)

RECURSIVE ResultTasks(_, _)
ResultTasks(allTimeEntries, k) ==
    IF k > Len(allTimeEntries) THEN <<>>
    ELSE [j \in 1..Len(allTimeEntries[k].entries) |->
            [date |-> allTimeEntries[k].entries[j].entry_date,
             subject |-> allTimeEntries[k].entries[j].subject,
             is_scrum |-> allTimeEntries[k].entries[j].is_scrum,
             work_package_id |-> allTimeEntries[k].entries[j].work_package_id]]
         \o ResultTasks(allTimeEntries, k + 1)

\* The file has a raw entry with a validation error.
HasInvalidEntry ==
    \E k \in 1..Len(cur.logs) :
        \E j \in 1..Len(cur.logs[k].entries) : ~RawIsValid(cur.logs[k].entries[j])

\* C17: when a file has a raw entry with a validation error, the result of parsing it
\* holds no entry for that raw entry, and holds every valid entry of every date of the
\* file, in source order.
C17_InvalidEntryDiscardedAlone ==
    (ParseDone /\ returned[1].ok /\ HasInvalidEntry) =>
        ResultTasks(returned[1].allTimeEntries, 1) = FileTasks(cur.logs, 1)

-----------------------------------------------------------------------------
(* OpenProjectTimeLogger: _makeRequest and the calls that await it.        *)

MaxCalls == 3

MaxRequests == 3

\* The calls of the pipeline that issue remote requests.
RequestingCalls == {"parseWorkLogFile", "performWorkPackageAnalysis", "processAllEntries"}

NoRequest == [op |-> "none", state |-> "none", call |-> "none"]

\* A caller that goes on to its next request without awaiting the one in flight.
callerRuns_Unawaited(position) == position \in {"running", "awaiting"}

\* Every _makeRequest of a call is awaited (or returned to a caller that awaits it): the
\* call reaches its next request only when it is not suspended in one.
callerRuns(position) == position = "running"

InitRequests ==
    /\ workLogEntries = <<>>
    /\ lastCall = NoRequest
    /\ validationIssues = <<>>
    /\ analysisData = NoAnalysis
    /\ workPackages = <<>>
    /\ timeEntries = <<>>
    /\ pc = "idle"
    /\ idx = 0
    /\ cur = [call |-> "none", remaining |-> 0]
    /\ results = <<>>
    /\ stats = [createdCount |-> 0, updatedCount |-> 0, errorCount |-> 0]
    /\ returned = <<>>
    /\ faults = [lookup |-> 0, mutation |-> 0, listing |-> 0]
    /\ runDate = [kind |-> "none"]
    /\ initialized = "ok"
    /\ activeRequests = 0

\* The caller starts one of the calls and awaits it; the call has `remaining` requests
\* to make, one after the other (page requests of lookups, creations).
StartCall(call, remaining) ==
    /\ pc = "idle"
    /\ idx < MaxCalls
    /\ idx' = idx + 1
    /\ pc' = "running"
    /\ cur' = [call |-> call, remaining |-> remaining]
    /\ results' = <<>>
    /\ UNCHANGED <<workLogEntries, timeVars, analysisData, remoteVars, stats, returned, faults,
                   runDate, clientVars>>

\* _makeRequest as far as its fetch: trackRequestStart().
TrackRequestStart ==
    /\ callerRuns(pc)
    /\ cur.remaining > 0
    /\ activeRequests' = activeRequests + 1
    /\ lastCall' = [op |-> "_makeRequest", state |-> "inflight", call |-> cur.call]
    /\ pc' = "awaiting"
    /\ UNCHANGED <<workLogEntries, validationIssues, analysisData, remoteVars, idx, cur, results,
                   stats, returned, faults, runDate, initialized>>

\* The fetch of the request in flight settles, with a response (ok) or with an error or
\* an HTTP status that _makeRequest throws on; finally: trackRequestEnd().
TrackRequestEnd(ok) ==
    /\ activeRequests > 0
    /\ lastCall.state = "inflight"
    /\ activeRequests' = activeRequests - 1
    /\ lastCall' = [lastCall EXCEPT !.state = IF ok THEN "completed" ELSE "failed"]
    /\ results' = Append(results, IF ok THEN "completed" ELSE "failed")
    /\ cur' = [cur EXCEPT !.remaining = @ - 1]
    /\ pc' = "running"
    /\ UNCHANGED <<workLogEntries, validationIssues, analysisData, remoteVars, idx, stats,
                   returned, faults, runDate, initialized>>

\* The call has made its requests and returns to its caller.
CallReturns ==
    /\ pc = "running"
    /\ cur.remaining = 0
    /\ pc' = "idle"
    /\ UNCHANGED <<workLogEntries, timeVars, analysisData, remoteVars, idx, cur, results, stats,
                   returned, faults, runDate, clientVars>>

NextRequests ==
    \/ \E call \in RequestingCalls, remaining \in 0..MaxRequests : StartCall(call, remaining)
    \/ TrackRequestStart
    \/ \E ok \in BOOLEAN : TrackRequestEnd(ok)
    \/ CallReturns

\* The requests of parsing, analysis and processAllEntries, called one after the other.
SpecRequests == InitRequests /\ [][NextRequests]_vars

-----------------------------------------------------------------------------
(* WorkLogService: processAllEntries on a service that is not initialized.  *)

\* The service after its constructor and processFile: entries to process, no analysis,
\* initialize() not called yet.
InitService ==
    /\ \E raws \in ProcInputs : workLogEntries = parsedEntries(raws)
    /\ workPackages \in InitialWorkPackages
    /\ \A k \in 1..Len(workLogEntries) :
          workLogEntries[k].work_package_id # 0 => Len(workPackages) >= 1
    /\ lastCall = NoCall
    /\ validationIssues = <<>>
    /\ analysisData = NoAnalysis
    /\ timeEntries = <<>>
    /\ pc = "idle"
    /\ idx = 0
    /\ cur = NoLocals
    /\ results = <<>>
    /\ stats = [createdCount |-> 0, updatedCount |-> 0, errorCount |-> 0]
    /\ returned = <<>>
    /\ faults = [lookup |-> 0, mutation |-> 0, listing |-> 0]
    /\ runDate = [kind |-> "none"]
    /\ initialized = "never"
    /\ activeRequests = 0

\* initialize(): loadConfig(), then logger.initialize(), which throws when the stored
\* settings lack the base URL or the access token.
Initialize ==
    /\ pc = "idle"
    /\ initialized # "ok"
    /\ \E ok \in BOOLEAN : initialized' = IF ok THEN "ok" ELSE "failed"
    /\ UNCHANGED <<workLogEntries, timeVars, analysisData, remoteVars, pc, idx, cur, results,
                   stats, returned, faults, runDate, activeRequests>>

NextService ==
    \/ Initialize
    \/ ProcessAllEntries
    \/ ProcessEntry
    \/ ProcessAllEntriesReturn

\* WorkLogService: initialize() and processAllEntries() before any analysis.
SpecService == InitService /\ [][NextService]_vars

\* C20: while the service is not successfully initialized, processAllEntries records no
\* outcome for any entry and returns no result: it fails before the first entry.
C20_UninitializedFailsFast ==
    initialized # "ok" => (results = <<>> /\ returned = <<>>)

\* The entries of all the logs of a file, as parsing them one after the other gives.
RECURSIVE AllFileEntries(_, _)
AllFileEntries(logs, k) ==
    IF k > Len(logs) THEN <<>>
    ELSE (IF parseDateString(logs[k].date).ok
          THEN parseDateEntries(logs[k].entries,
                                dateNumber(parseDateString(logs[k].date).value))
          ELSE <<>>) \o AllFileEntries(logs, k + 1)

\* C21: parseWorkLogFile issues a remote request only when every raw entry of every log
\* of the file has been validated and parsed, and issues none for a file without a
\* valid entry.
C21_ValidationFirst ==
    /\ [][cur'.requests > cur.requests =>
            (pc = "checkProjectDuplicates" /\ cur.allEntries = AllFileEntries(cur.logs, 1))]_vars
    /\ [](FileTasks(cur.logs, 1) = <<>> => cur.requests = 0)

\* A request has been issued for a file whose two logs both yield entries and which
\* has an invalid raw entry in its second log.
C21_Witness ==
    /\ cur.requests > 0
    /\ Len(cur.allTimeEntries) = 2
    /\ \E j \in 1..Len(cur.logs[2].entries) : ~RawIsValid(cur.logs[2].entries[j])

-----------------------------------------------------------------------------
(* WorkLogService: the start-time prompting loop of the caller.            *)

\* r = checkAndPromptForStartTime(), at the start and after each start time set.
PromptCheck ==
    /\ lastCall.op \in {"none", "setStartTimeForFirstEntry"}
    /\ CheckAndPromptForStartTime

\* if r.needsStartTime then setStartTimeForFirstEntry(t, r.date)
PromptSet ==
    /\ lastCall.op = "checkAndPromptForStartTime"
    /\ lastCall.needsStartTime
    /\ \E t \in StartTimes : SetStartTimeForFirstEntry(t, lastCall.targetDate)

NextPrompt == PromptCheck \/ PromptSet

\* PromptSet is enabled exactly in these states: the find of setStartTimeForFirstEntry
\* is total and StartTimes is not empty.
PromptSetEnabled == lastCall.op = "checkAndPromptForStartTime" /\ lastCall.needsStartTime

\* The loop repeat { r = checkAndPromptForStartTime(); if r.needsStartTime then
\* setStartTimeForFirstEntry(t, r.date) }, which its caller runs to its end: weak
\* fairness of both steps, that of PromptSet written with its enabling condition (a
\* step from a state where it is enabled is a PromptSet step and disables it).
SpecPrompt ==
    /\ InitTime
    /\ [][NextPrompt]_vars
    /\ WF_vars(PromptCheck)
    /\ []<>(~PromptSetEnabled)

\* The dates of the file with an entry that is not a recurring meeting.
DatesToPrompt ==
    {workLogEntries[k].entry_date : k \in {j \in 1..Len(workLogEntries) : ~workLogEntries[j].is_scrum}}

\* The dates whose first entry that is not a recurring meeting has a start time set by
\* the user.
DatesPrompted(E) ==
    {d \in {E[k].entry_date : k \in 1..Len(E)} :
        \E k \in 1..Len(E) :
            /\ E[k].entry_date = d /\ ~E[k].is_scrum /\ E[k].user_set_start_time
            /\ \A j \in 1..(k - 1) : E[j].entry_date = d => E[j].is_scrum}

\* C22: the prompting loop ends with needsStartTime = false; each prompt is for the
\* earliest date with a non-recurring entry that has not been prompted for, each start
\* time set settles exactly the date prompted for, and a date settled stays settled: one
\* prompt per such date, in ascending order, never twice.
C22_PromptingTerminates ==
    /\ <>(lastCall.op = "checkAndPromptForStartTime" /\ ~lastCall.needsStartTime)
    /\ [][(lastCall'.op = "checkAndPromptForStartTime" /\ lastCall'.needsStartTime) =>
            /\ lastCall'.targetDate \in DatesToPrompt \ DatesPrompted(workLogEntries)
            /\ \A d \in DatesToPrompt \ DatesPrompted(workLogEntries) :
                  lastCall'.targetDate <= d]_vars
    /\ [][lastCall'.op = "setStartTimeForFirstEntry" =>
            DatesPrompted(workLogEntries') =
                DatesPrompted(workLogEntries) \cup {lastCall.targetDate}]_vars
    /\ []((lastCall.op = "checkAndPromptForStartTime" /\ ~lastCall.needsStartTime) =>
            DatesPrompted(workLogEntries) = DatesToPrompt)

\* The loop has ended after prompting for two dates.
C22_Witness ==
    /\ lastCall.op = "checkAndPromptForStartTime"
    /\ ~lastCall.needsStartTime
    /\ Cardinality(DatesPrompted(workLogEntries)) = 2

-----------------------------------------------------------------------------
(* Claims about processAllEntries and the buckets of the analysis.         *)

\* The analysis has classified entry k as recurring, as linked or as a duplicate on the
\* server.
ClassifiedKnown(k) ==
    /\ analysisData.done
    /\ \/ \E j \in 1..Len(analysisData.scrum) : analysisData.scrum[j] = k
       \/ \E j \in 1..Len(analysisData.existing) : analysisData.existing[j] = k
       \/ \E j \in 1..Len(analysisData.duplicates) : analysisData.duplicates[j].entry = k

\* The work package id the analysis knows for entry k.
KnownId(k) ==
    IF workLogEntries[k].work_package_id # 0 THEN workLogEntries[k].work_package_id
    ELSE workLogEntries[k].existing_work_package_id

\* C23: for an entry that the analysis classified as recurring, linked or duplicate,
\* processAllEntries is never at a work package lookup or creation, and its turn of
\* the loop leaves the work packages of the remote as they are and adds at most a
\* time entry against the known id.
C23_KnownIdNoLookup ==
    /\ [](pc \in {"findWorkPackageBySubject", "createWorkPackage", "postWorkPackage"} =>
            ~ClassifiedKnown(idx))
    /\ [][(pc \in {"loop", "createTimeEntry"} /\ idx <= Len(workLogEntries)
             /\ ClassifiedKnown(idx)) =>
            /\ workPackages' = workPackages
            /\ faults'.lookup = faults.lookup
            /\ pc' \in {"loop", "createTimeEntry"}
            /\ \/ timeEntries' = timeEntries
               \/ /\ Len(timeEntries') = Len(timeEntries) + 1
                  /\ timeEntries'[Len(timeEntries')].workPackage = KnownId(idx)]_vars

\* A run has logged time for an entry that the analysis filed as a duplicate of a work
\* package on the server.
C23_Witness ==
    /\ pc = "loop"
    /\ \E k \in 1..Len(results) :
          /\ results[k].success
          /\ results[k].type = "existing"
          /\ \E j \in 1..Len(analysisData.duplicates) :
                analysisData.duplicates[j].entry = results[k].entry

-----------------------------------------------------------------------------
(* WorkLogService: analysis and processing beside an external writer.      *)

MaxRaceWP == 3

\* An external actor creates a work package while the pipeline is between two of its
\* requests.
ExternalCreate(projectId, subject) ==
    /\ Len(workPackages) < MaxRaceWP
    /\ workPackages' = Append(workPackages, newWorkPackage(workPackages, projectId, subject))
    /\ UNCHANGED <<workLogEntries, timeVars, analysisData, timeEntries, runVars>>

NextRace ==
    \/ NextProc
    \/ \E w \in ({1} \X Subjects) \cup {<<2, <<"a">>>>} : ExternalCreate(w[1], w[2])

\* One new task to process, and a remote that is empty before the external actor and
\* the pipeline write to it.
InitRace ==
    /\ \E raws \in [1..1 -> {r \in ProcRawEntries : r.work_package_id = 0}] :
          workLogEntries = parsedEntries(raws)
    /\ lastCall = NoCall
    /\ validationIssues = <<>>
    /\ IdleRun

\* Analysis and processing runs against a remote that an external actor writes to.
SpecRace == InitRace /\ [][NextRace]_vars

\* The work packages of the remote with the project and the normalized subject of
\* entry k.
MatchingWorkPackages(k) ==
    {j \in 1..Len(workPackages) :
        /\ workPackages[j].project = getProjectId(workLogEntries[k].project)
        /\ toLowerCase(trim(workPackages[j].subject))
             = toLowerCase(trim(workLogEntries[k].subject))}

\* A lookup of processAllEntries for the entry in turn runs from its first request to
\* its return.
LookupStep == pc \in {"findWorkPackageBySubject", "createWorkPackage"} /\ pc' # pc

\* C24 as stated: whenever a work package with the entry's normalized subject is on
\* the remote before a lookup of the pipeline starts, the pipeline reuses it and
\* creates none.
C24_ReuseBeforeLastLookup_AsStated ==
    [][(LookupStep /\ MatchingWorkPackages(idx) # {}) =>
          /\ pc' = "createTimeEntry"
          /\ cur'.workPackageId \in {workPackages[j].id : j \in MatchingWorkPackages(idx)}
          /\ workPackages' = workPackages]_vars

\* C24: when a work package with the entry's normalized subject is on the remote
\* before a lookup of the pipeline starts and no request of that lookup fails, the
\* pipeline reuses it and creates none; the pipeline goes on to its create request
\* only from a last lookup that failed or that ran on a remote without such a work
\* package, so that a duplicate it creates was put there after that lookup.
C24_ReuseBeforeLastLookup ==
    /\ [][(LookupStep /\ faults'.lookup = faults.lookup /\ MatchingWorkPackages(idx) # {}) =>
            /\ pc' = "createTimeEntry"
            /\ cur'.workPackageId \in {workPackages[j].id : j \in MatchingWorkPackages(idx)}
            /\ workPackages' = workPackages]_vars
    /\ [][(pc # "postWorkPackage" /\ pc' = "postWorkPackage"
             /\ faults'.lookup = faults.lookup) =>
            (pc = "createWorkPackage" /\ MatchingWorkPackages(idx) = {})]_vars
    /\ [][(pc = "postWorkPackage" /\ pc' = "postWorkPackage"
             /\ workPackages' # workPackages) =>
            \E w \in ({1} \X Subjects) \cup {<<2, <<"a">>>>} : ExternalCreate(w[1], w[2])]_vars

\* No lookup has failed, and the pipeline has created work package 2 beside work
\* package 1 of the same project and normalized subject, which the external actor
\* created between the pipeline's last lookup and its create request.
C24_Witness ==
    /\ pc = "createTimeEntry"
    /\ faults.lookup = 0
    /\ cur.type = "new"
    /\ cur.workPackageId = 2
    /\ Len(workPackages) = 2
    /\ MatchingWorkPackages(idx) = {1, 2}

\* C25: in runs of processWorkLogEntries started on a remote without time entries and
\* with every time-entry listing succeeding, the remote never holds more than one time
\* entry for a (work package, date) pair.
C25_OneTimeEntryPerPair ==
    [](faults.listing = 0 =>
          \A j1, j2 \in 1..Len(timeEntries) :
              (/\ timeEntries[j1].workPackage = timeEntries[j2].workPackage
               /\ timeEntries[j1].spentOn = timeEntries[j2].spentOn) => j1 = j2)

\* The number of failed records among the first n of res.
RECURSIVE FailedRecords(_, _)
FailedRecords(res, n) ==
    IF n = 0 THEN 0
    ELSE FailedRecords(res, n - 1) + (IF res[n].success THEN 0 ELSE 1)

CounterSum(st) == st.createdCount + st.updatedCount + st.errorCount

\* C26: on every return of processAllEntries createdCount + updatedCount + errorCount
\* = totalEntries = the number of entries, successCount = createdCount + updatedCount
\* and errorCount is the number of records with success = false; during the run the
\* counters change only in the step that finishes an entry, which adds one to exactly
\* one of them.
C26_CounterAccounting ==
    /\ [](\A r \in 1..Len(returned) :
            /\ returned[r].createdCount + returned[r].updatedCount + returned[r].errorCount
                 = returned[r].totalEntries
            /\ returned[r].totalEntries = Len(workLogEntries)
            /\ returned[r].successCount = returned[r].createdCount + returned[r].updatedCount
            /\ returned[r].errorCount
                 = FailedRecords(returned[r].results, Len(returned[r].results)))
    /\ [][(InRun /\ idx' = idx + 1) =>
            /\ CounterSum(stats') = CounterSum(stats) + 1
            /\ stats'.createdCount >= stats.createdCount
            /\ stats'.updatedCount >= stats.updatedCount
            /\ stats'.errorCount >= stats.errorCount]_vars
    /\ [][(InRun /\ idx' = idx) => stats' = stats]_vars

\* A run on two entries has returned that created a work package for one and failed
\* on the other, and another that only logged time on known work packages.
C26_Witness ==
    /\ Len(returned) = 2
    /\ returned[1].totalEntries = 2
    /\ returned[1].createdCount = 1
    /\ returned[1].errorCount = 1
    /\ returned[2].updatedCount = 2

-----------------------------------------------------------------------------
(* Claims about date groups without a start time, overlaps and lookups.    *)

\* The dates whose chain anchor has no start time supplied by the user.
UnanchoredDates ==
    {d \in {workLogEntries[k].entry_date : k \in 1..Len(workLogEntries)} :
        Anchor(d) # 0 /\ ~workLogEntries[Anchor(d)].user_set_start_time}

\* C27: while the first non-recurring entry of a date has no start time supplied by
\* the user, no non-recurring entry of that date has a calculated start or end time,
\* whatever calls were made, calculateAllTimes included; and checkAndPromptForStartTime
\* reports needsStartTime exactly when there is such a date, for the earliest one and
\* with its first non-recurring entry.
C27_DeferredChaining ==
    /\ [](\A k \in 1..Len(workLogEntries) :
            (~workLogEntries[k].is_scrum /\ workLogEntries[k].entry_date \in UnanchoredDates) =>
                /\ workLogEntries[k].calculated_start_time = NoTime
                /\ workLogEntries[k].calculated_end_time = NoTime)
    /\ [][lastCall'.op = "checkAndPromptForStartTime" =>
            /\ lastCall'.needsStartTime <=> UnanchoredDates # {}
            /\ lastCall'.needsStartTime =>
                  /\ lastCall'.targetDate \in UnanchoredDates
                  /\ \A d \in UnanchoredDates : lastCall'.targetDate <= d
                  /\ lastCall'.entry = Anchor(lastCall'.targetDate)]_vars

\* calculateAllTimes has run on a file with two non-recurring entries on a date
\* without a start time and a chain computed on another date.
C27_Witness ==
    /\ lastCall.op = "calculateAllTimes"
    /\ \E d \in UnanchoredDates :
          Cardinality({k \in 1..Len(workLogEntries) :
                          workLogEntries[k].entry_date = d /\ ~workLogEntries[k].is_scrum}) >= 2
    /\ \E k \in 1..Len(workLogEntries) :
          ~workLogEntries[k].is_scrum /\ workLogEntries[k].calculated_end_time # NoTime

\* Start times that bring the end of a 7 h chain to 23:50, ten minutes before the
\* wall clock wraps, and a later one.
LateStartTimes == {HHMM(16, 50), HHMM(22, 0)}

NextOverlap ==
    \/ \E t \in LateStartTimes, d \in Dates \cup {0} : SetStartTimeForFirstEntry(t, d)
    \/ CalculateAllTimes
    \/ CheckAndPromptForStartTime

\* The time chain under any sequence of calls, with chains that reach midnight.
SpecOverlap == InitTime /\ [][NextOverlap]_vars

\* The entries calculateAllTimes has reported a time_overlap issue for.
OverlapReported ==
    {validationIssues[j].entry :
        j \in {i \in 1..Len(validationIssues) : validationIssues[i].type = "time_overlap"}}

\* C28: the issues calculateAllTimes returns have a time_overlap for a non-recurring
\* entry exactly when its calculated start time is earlier than the calculated end
\* time of the nearest non-recurring entry of its date before it, and never for the
\* chain anchor of a date; an entry reported has its start and end time set.
C28_OverlapReported ==
    lastCall.op \in {"calculateAllTimes", "setStartTimeForFirstEntry"} =>
        \A k \in 1..Len(workLogEntries) :
            /\ k \in OverlapReported <=>
                  /\ ~workLogEntries[k].is_scrum
                  /\ PrevInChain(k) # 0
                  /\ WellFormedTime(workLogEntries[k].calculated_start_time)
                  /\ WellFormedTime(workLogEntries[PrevInChain(k)].calculated_end_time)
                  /\ MinutesOfDay(workLogEntries[k].calculated_start_time)
                       < MinutesOfDay(workLogEntries[PrevInChain(k)].calculated_end_time)
            /\ k \in OverlapReported =>
                  /\ k # Anchor(workLogEntries[k].entry_date)
                  /\ WellFormedTime(workLogEntries[k].calculated_start_time)
                  /\ WellFormedTime(workLogEntries[k].calculated_end_time)

\* The first work package in the listing of the project of the last lookup that
\* matches its query exactly, and the page of the listing it is on.
FirstHit == CHOOSE k \in ExactMatches : \A h \in ExactMatches : k <= h

PageOfFirstHit ==
    LET position == Cardinality({j \in 1..FirstHit :
                                    workPackages[j].project = lastCall.projectId})
    IN  (position + pageSize - 1) \div pageSize

\* C29 as stated: a lookup in a project with several exact matches returns the first
\* of them in fetch order and has requested the pages up to the one holding it, no more.
C29_FirstMatchInFetchOrder_AsStated ==
    (LookedUp /\ Cardinality(ExactMatches) >= 2) =>
        /\ lastCall.workPackage = workPackages[FirstHit]
        /\ lastCall.fetches = PageOfFirstHit

\* C29: a lookup in a project with several exact matches none of whose page requests
\* failed returns the first of them in fetch order, having requested the pages up to
\* the one holding it; failed or not, it requests no page after that one and returns
\* no other match.
C29_FirstMatchInFetchOrder ==
    (LookedUp /\ Cardinality(ExactMatches) >= 2) =>
        /\ ~lastCall.failed =>
              /\ lastCall.workPackage = workPackages[FirstHit]
              /\ lastCall.fetches = PageOfFirstHit
        /\ lastCall.fetches <= PageOfFirstHit
        /\ lastCall.workPackage \in {NoWorkPackage, workPackages[FirstHit]}

\* A lookup that did not fail found the first of two exact matches as the second item
\* of page 2, the other match being on page 3, and stopped after page 2.
C29_Witness ==
    /\ LookedUp
    /\ ~lastCall.failed
    /\ Cardinality(ExactMatches) = 2
    /\ PageOfFirstHit = 2
    /\ lastCall.fetches = 2
    /\ lastCall.workPackage = workPackages[FirstHit]
    /\ Len(projectWorkPackages(workPackages, lastCall.projectId)) = 2 * pageSize + 1
    /\ SameSubject(workPackages[Len(workPackages)].subject, lastCall.subject)
    /\ workPackages[Len(workPackages)].project = lastCall.projectId

\* The key of getUniqueEntries for entry k.
EntryKey(k) == <<workLogEntries[k].project, workLogEntries[k].subject, workLogEntries[k].hours>>

\* The entries the returned analysis holds in bucket name.
Categorized(name) ==
    LET b == BucketEntries(analysisData)[name] IN {b[j] : j \in 1..Len(b)}

FirstOfKey == {k \in 1..Len(workLogEntries) : \A j \in 1..(k - 1) : EntryKey(j) # EntryKey(k)}

\* C30: the entries performWorkPackageAnalysis goes through are the first entries of
\* workLogEntries with their key project|subject|hours, each once and in the order of
\* the file; the buckets it returns hold those entries only, so none holds two entries
\* with one key.
C30_UniqueEntriesFirstOfKey ==
    /\ pc = "analysis" =>
          /\ {cur.uniqueEntries[j] : j \in 1..Len(cur.uniqueEntries)} = FirstOfKey
          /\ \A i, j \in 1..Len(cur.uniqueEntries) :
                i < j => cur.uniqueEntries[i] < cur.uniqueEntries[j]
    /\ analysisData.done =>
          /\ UNION {Categorized(name) : name \in BucketNames} = FirstOfKey
          /\ \A name \in BucketNames :
                LET b == BucketEntries(analysisData)[name]
                IN  \A i, j \in 1..Len(b) : i < j => EntryKey(b[i]) # EntryKey(b[j])

\* An analysis has returned on a file whose two entries have the same key, one of them
\* linked to a work package and the other not: only the first is in a bucket.
C30_Witness ==
    /\ analysisData.done
    /\ Len(workLogEntries) = 2
    /\ EntryKey(1) = EntryKey(2)
    /\ workLogEntries[1].work_package_id # workLogEntries[2].work_package_id
    /\ UNION {Categorized(name) : name \in BucketNames} = {1}

-----------------------------------------------------------------------------
(* WorkLogParser: files with recurring meetings that lack a work package id. *)

\* Raw entries without a validation error: a new task, a linked task after a break of
\* 0.33 h, a recurring meeting with its work package id, with the id null, and with
\* the field absent.
ScrumRawEntries ==
    {[project |-> JString(<<"P", "1">>), subject |-> JString(k[1]),
      duration_hours |-> JNumber(250), activity |-> JString(<<"D">>),
      is_scrum |-> JBoolean(k[2]), break_hours |-> k[3], work_package_id |-> k[4]] :
        k \in {<<<<"a">>, FALSE, JUndefined, JNull>>,
               <<<<"a", "b">>, FALSE, JNumber(33), JNumber(1)>>,
               <<<<"a">>, TRUE, JUndefined, JNumber(1)>>,
               <<<<"a">>, TRUE, JUndefined, JNull>>,
               <<<<"a">>, TRUE, JUndefined, JUndefined>>}}

\* A file of one log object with up to MaxFileEntries such entries.
InitScrum ==
    /\ workLogEntries = <<>>
    /\ lastCall = NoCall
    /\ validationIssues = <<>>
    /\ analysisData = NoAnalysis
    /\ workPackages \in ParseRemotes
    /\ timeEntries = <<>>
    /\ pc = "idle"
    /\ idx = 0
    /\ \E n \in 1..MaxFileEntries : \E entries \in [1..n -> ScrumRawEntries] :
          cur = [NoParse EXCEPT !.logs =
                    <<[date |-> <<"s", "e", "p", "t", "-", "7", "-", "2", "0", "2", "5">>,
                       entries |-> entries]>>]
    /\ results = <<>>
    /\ stats = [createdCount |-> 0, updatedCount |-> 0, errorCount |-> 0]
    /\ returned = <<>>
    /\ faults = [lookup |-> 0, mutation |-> 0, listing |-> 0]
    /\ runDate = [kind |-> "none"]
    /\ initialized = "never"
    /\ activeRequests = 0

\* WorkLogParser: one call of parseWorkLogFile on such a file.
SpecScrum == InitScrum /\ [][NextParse]_vars

\* A raw entry of a recurring meeting whose work package id is null or absent.
IsScrumWithoutId(raw) ==
    raw.is_scrum = JBoolean(TRUE) /\ raw.work_package_id.t \in {"null", "undefined"}

-----------------------------------------------------------------------------
(* Claims about the progress callback and the outcomes of processAllEntries. *)

\* This step issues a remote request for the entry in turn.
RequestStep ==
    /\ pc \in {"findWorkPackageBySubject", "createWorkPackage", "postWorkPackage", "createTimeEntry"}
    /\ pc' # pc
    /\ ~(pc = "createTimeEntry" /\ timeEntries' = timeEntries /\ faults' = faults)

\* C32: in a run of processAllEntries the progress callback is called in the step that
\* starts an entry and in no other, with current = the position of that entry and
\* total = the number of entries; when it is called for entry k it has been called
\* k - 1 times and the requests of entry k - 1 are over, every request for entry k
\* comes after the call for k, and at the return it has been called once per entry.
C32_ProgressOncePerEntry ==
    /\ [][(InRun /\ lastCall' # lastCall) =>
            /\ pc = "loop"
            /\ lastCall.calls = idx - 1
            /\ Len(results) = idx - 1
            /\ lastCall' = [op |-> "progressCallback", current |-> idx,
                            total |-> Len(workLogEntries), calls |-> idx]]_vars
    /\ [][(pc = "loop" /\ idx <= Len(workLogEntries) /\ (pc' # pc \/ idx' # idx)) =>
            lastCall'.calls = lastCall.calls + 1]_vars
    /\ [][RequestStep => (lastCall.calls = idx /\ lastCall.current = idx)]_vars
    /\ [][(pc = "loop" /\ pc' = "idle") => lastCall.calls = Len(workLogEntries)]_vars

\* A run over two entries is at the remote request of its second entry: the callback
\* has been called twice, last with current = 2 and total = 2.
C32_Witness ==
    /\ pc = "createTimeEntry"
    /\ idx = 2
    /\ Len(results) = 1
    /\ lastCall = [op |-> "progressCallback", current |-> 2, total |-> 2, calls |-> 2]

-----------------------------------------------------------------------------
(* Claims about the statuses of processWorkLogEntries.                     *)

StatusTaxonomy ==
    {"using_existing_work_package", "reused_existing_work_package", "created_work_package",
     "skipped_duplicate_time_entry", "created_time_entry", "error"}

\* The status of task k in the run under way: that of its detail, pushed to
\* results.details or still in the hands of processWorkLogEntry.
StatusOf(res, detail, k) ==
    IF k <= Len(res.details) THEN res.details[k].status
    ELSE IF detail.index = k THEN detail.status
    ELSE "none"

\* C33: within a run of processWorkLogEntries the status of a task, once it is one of
\* the taxonomy values, stays what it is.
C33_StatusTerminal ==
    [][(pc # "idle" /\ pc' # "idle") =>
          \A k \in 1..Len(workLogEntries) :
              StatusOf(results, cur, k) \in StatusTaxonomy =>
                  StatusOf(results', cur', k) = StatusOf(results, cur, k)]_vars

-----------------------------------------------------------------------------
(* WorkLogService: processFile.                                            *)

\* extractWorkLogEntries(allDateEntries): the lists of the dates, one after another.
RECURSIVE extractWorkLogEntries(_)
extractWorkLogEntries(allDateEntries) ==
    IF allDateEntries = <<>> THEN <<>>
    ELSE Head(allDateEntries).entries \o extractWorkLogEntries(Tail(allDateEntries))

\* processFile(file) of a .json file, once its call of parser.parseWorkLogFile(file)
\* has returned or thrown: lastCall keeps what it returns.
ProcessFile ==
    /\ pc = "idle"
    /\ ParseDone
    /\ lastCall = NoCall
    /\ IF ~returned[1].ok \/ returned[1].allTimeEntries = <<>>
       THEN /\ lastCall' = [op |-> "processFile", ok |-> FALSE, dateCount |-> 0, totalEntries |-> 0]
            /\ UNCHANGED workLogEntries
       ELSE /\ workLogEntries' = extractWorkLogEntries(returned[1].allTimeEntries)
            /\ lastCall' = [op |-> "processFile", ok |-> TRUE,
                            dateCount |-> Len(returned[1].allTimeEntries),
                            totalEntries |-> Len(extractWorkLogEntries(returned[1].allTimeEntries))]
    /\ UNCHANGED <<validationIssues, analysisData, remoteVars, runVars>>

NextFile ==
    \/ ParseWorkLogFile(TRUE, TRUE)
    \/ ProcessLogEntry
    \/ SkipServerDuplicateValidation
    \/ InitializeApiClient
    \/ CheckEntryDuplicate
    \/ CheckProjectDuplicatesReturn
    \/ ParseWorkLogFileReturn
    \/ ProcessFile

\* WorkLogService: one call of processFile, which parses with the default options.
SpecFile == InitParse /\ [][NextFile]_vars

\* The entries of the service as tasks.
EntryTasks(E) ==
    [j \in 1..Len(E) |-> [date |-> E[j].entry_date, subject |-> E[j].subject,
                          is_scrum |-> E[j].is_scrum, work_package_id |-> E[j].work_package_id]]

\* C34: the entries processFile returns are the valid tasks of the file, each once and
\* in source order, and totalEntries is their number.
C34_NoDataLoss ==
    (lastCall.op = "processFile" /\ lastCall.ok) =>
        /\ EntryTasks(workLogEntries) = FileTasks(cur.logs, 1)
        /\ lastCall.totalEntries = Len(FileTasks(cur.logs, 1))

-----------------------------------------------------------------------------
(* Claims about repeated calculations.                                     *)

\* C35: a call of calculateAllTimes that follows a calculation, its own or the one
\* setStartTimeForFirstEntry ends with, leaves every calculated start and end time as
\* it was and returns the same issues.
C35_CalculateIdempotent ==
    [][(/\ \/ lastCall.op = "calculateAllTimes"
           \/ lastCall.op = "setStartTimeForFirstEntry" /\ lastCall.entry # 0
        /\ lastCall'.op = "calculateAllTimes") =>
          /\ workLogEntries' = workLogEntries
          /\ validationIssues' = validationIssues]_vars

\* C36: the outcome processAllEntries records for an entry that succeeded has the type
\* of the bucket the analysis put the entry in: scrum -> 'scrum', existing ->
\* 'existing', duplicates -> 'duplicate', new -> 'new' (or 'found_existing' when the
\* remote has come to hold a match since the analysis).
C36_OutcomeAgreesWithBucket ==
    [][(InRun /\ analysisData.done /\ Len(results') = Len(results) + 1
          /\ results'[Len(results')].success) =>
          LET type == results'[Len(results')].type
          IN  /\ idx \in Categorized("scrum") => type = "scrum"
              /\ idx \in Categorized("existing") => type = "existing"
              /\ idx \in Categorized("duplicates") => type = "duplicate"
              /\ idx \in Categorized("new") => type \in {"new", "found_existing"}]_vars

\* C37: the createdCount a run of processAllEntries returns is the number of work
\* packages the remote gained during that run (nobody else writes to the remote, so
\* the remote at the start of a second run is the remote the first run returned with).
C37_CreatedCountIsCreations ==
    \A r \in 2..Len(returned) :
        returned[r].createdCount =
            returned[r].remoteWorkPackages - returned[r - 1].remoteWorkPackages

\* C38: an entry whose recorded outcome is a failure left nothing on the remote, so a
\* run of processAllEntries in which every entry failed returns with the work packages
\* and the time entries the remote had when the run before it returned.
C38_FailedEntryLeftNothing ==
    \A r \in 2..Len(returned) :
        (\A k \in 1..Len(returned[r].results) : ~returned[r].results[k].success) =>
            /\ returned[r].remoteWorkPackages = returned[r - 1].remoteWorkPackages
            /\ returned[r].remoteTimeEntries = returned[r - 1].remoteTimeEntries

-----------------------------------------------------------------------------
(* Claims about a failed listing of the time entries.                      *)

\* The task in the hands of addTimeEntry is about to create its time entry after a
\* listing that failed: the remote holds a time entry the listing would have returned,
\* or the only listing that has failed so far is that of the first task of the first run.
ListingFailedHere ==
    /\ pc = "addCreateTimeEntry"
    /\ \/ Len(checkExistingTimeEntries(timeEntries, cur.work_package_id, runDate, FALSE)) > 0
       \/ faults.listing > 0 /\ idx = 1 /\ returned = <<>>

\* The task under way ends with a new time entry, the status created_time_entry and
\* one more success.
EndsCreated ==
    /\ Len(timeEntries') = Len(timeEntries) + 1
    /\ timeEntries'[Len(timeEntries')].workPackage = cur.work_package_id
    /\ results'.successful = results.successful + 1
    /\ results'.failed = results.failed
    /\ results'.details = Append(results.details, [cur EXCEPT !.status = "created_time_entry"])

\* The task under way ends as an error and the remote's time entries are as they were.
EndsAsError ==
    /\ timeEntries' = timeEntries
    /\ results'.successful = results.successful
    /\ results'.failed = results.failed + 1
    /\ results'.details = Append(results.details, [cur EXCEPT !.status = "error"])

\* C39 as stated: a failed listing is taken for no existing time entry, and the task
\* then ends with a new time entry, status created_time_entry, counted as successful.
C39_ListingFailureAbsorbed_AsStated ==
    [][/\ (pc = "addTimeEntry" /\ faults'.listing = faults.listing + 1) =>
              (pc' = "addCreateTimeEntry" /\ results' = results /\ cur' = cur)
       /\ ListingFailedHere => EndsCreated]_vars

\* C39: a failed listing is taken for no existing time entry: the task is not ended by
\* it, createTimeEntry is called, and the task ends with a new time entry, status
\* created_time_entry, counted as successful, unless createTimeEntry itself throws
\* (hours that are not positive, a failed POST), which ends the task as an error.
C39_ListingFailureAbsorbed ==
    [][/\ (pc = "addTimeEntry" /\ faults'.listing = faults.listing + 1) =>
              (pc' = "addCreateTimeEntry" /\ results' = results /\ cur' = cur)
       /\ ListingFailedHere =>
              IF workLogEntries[idx].hours > 0 /\ faults'.mutation = faults.mutation
              THEN EndsCreated
              ELSE EndsAsError]_vars

\* A listing failed and the task ended with status created_time_entry, which gave the
\* remote a second time entry of one work package on one date.
C39_Witness ==
    /\ faults.listing > 0
    /\ faults.mutation = 0
    /\ runDate.kind = "ymd"
    /\ Len(results.details) > 0
    /\ results.details[Len(results.details)].status = "created_time_entry"
    /\ \E j \in 1..(Len(timeEntries) - 1) :
          /\ timeEntries[j].workPackage = timeEntries[Len(timeEntries)].workPackage
          /\ timeEntries[j].spentOn = timeEntries[Len(timeEntries)].spentOn

-----------------------------------------------------------------------------
(* WorkLogService: the whole pipeline, from the file to the remote.        *)

\* The files of the pipeline: a log of September 7 and a log of October 31 with one
\* valid raw entry each.
PipelineFiles ==
    LET sept7 == <<"s", "e", "p", "t", "-", "7", "-", "2", "0", "2", "5">>
        oct31 == <<"o", "c", "t", "-", "3", "1", "-", "2", "0", "2", "5">>
    IN  {<<[date |-> sept7, entries |-> <<e1>>], [date |-> oct31, entries |-> <<e2>>]>> :
            e1 \in ValidRawEntries, e2 \in ValidRawEntries}

InitPipeline ==
    /\ workLogEntries = <<>>
    /\ lastCall = NoCall
    /\ validationIssues = <<>>
    /\ analysisData = NoAnalysis
    /\ workPackages \in ParseRemotes
    /\ timeEntries = <<>>
    /\ pc = "idle"
    /\ idx = 0
    /\ \E logs \in PipelineFiles : cur = [NoParse EXCEPT !.logs = logs]
    /\ results = <<>>
    /\ stats = [createdCount |-> 0, updatedCount |-> 0, errorCount |-> 0]
    /\ returned = <<>>
    /\ faults = [lookup |-> 0, mutation |-> 0, listing |-> 0]
    /\ runDate = [kind |-> "none"]
    /\ initialized = "never"
    /\ activeRequests = 0

\* processFile has set the entries of the service and no processing has started.
FileLoaded == pc = "idle" /\ lastCall # NoCall /\ workLogEntries # <<>>

\* The pipeline as its user drives it: processFile on the file, then the start time
\* prompts, the calculation, the analysis and the processing in any order.
NextPipeline ==
    \/ NextFile
    \/ /\ FileLoaded
       /\ \E t \in StartTimes, k \in 1..Len(workLogEntries) :
             SetStartTimeForFirstEntry(t, workLogEntries[k].entry_date)
    \/ FileLoaded /\ CalculateAllTimes
    \/ FileLoaded /\ CheckAndPromptForStartTime
    \/ ParseDone /\ lastCall # NoCall /\ PerformWorkPackageAnalysis
    \/ CategorizeEntry
    \/ PerformWorkPackageAnalysisReturn
    \/ ParseDone /\ lastCall # NoCall /\ ProcessAllEntries
    \/ ProcessEntry
    \/ FindWorkPackageBySubject
    \/ CreateWorkPackage
    \/ PostWorkPackage
    \/ CreateTimeEntry
    \/ ProcessAllEntriesReturn

SpecPipeline == InitPipeline /\ [][NextPipeline]_vars

\* C40: only processing mutates the remote: a step that changes the work packages or
\* the time entries of the remote is a step of a run of processAllEntries, so none of
\* processFile / parseWorkLogFile, performWorkPackageAnalysis,
\* checkAndPromptForStartTime, setStartTimeForFirstEntry and calculateAllTimes
\* changes them.
C40_OnlyProcessingMutates ==
    [][(workPackages' # workPackages \/ timeEntries' # timeEntries) =>
          (InRun /\ pc \in {"postWorkPackage", "createTimeEntry"})]_vars

\* The file is loaded, a start time is set and the times are calculated, the analysis
\* has found an entry to be new, no run of processAllEntries has started, and the
\* remote is as empty as it was.
C40_Witness ==
    /\ ParseDone
    /\ FileLoaded
    /\ lastCall.op = "setStartTimeForFirstEntry"
    /\ lastCall.entry # 0
    /\ analysisData.done
    /\ analysisData.new # <<>>
    /\ Len(returned) = 1
    /\ results = <<>>
    /\ workPackages = <<>>
    /\ timeEntries = <<>>

=============================================================================
